---- MODULE Spec2Model ----
(***************************************************************************)
(* The drag-and-drop placement engine of the tierlist editor (tiers.js,    *)
(* the third script of src/util/remove_duplicates.js, lines 904-1789).     *)
(*                                                                         *)
(* The program keeps its document in the DOM.  The model keeps the part    *)
(* of the DOM the handlers read and write:                                 *)
(*   rows   div.tierlist > div.row* ; a row's span.items holds one         *)
(*          span.item per item, each wrapping one div.item-container       *)
(*          (img.draggable + span.item-label);                             *)
(*   pool   section.images ; its children are item-containers, bare        *)
(*          (as imported) or wrapped in a span.item (as dropped).          *)
(* An item is named by a number; 0 stands for null/undefined references.   *)
(* A row carries the background colour of its header.  The text of the     *)
(* document (title, row names, item names and sources) is modelled where   *)
(* it is read and written: in load_tierlist and save_tierlist, as          *)
(* operators on tierlist files (SpecIO).                                   *)
(***************************************************************************)
EXTENDS Integers, Sequences, FiniteSets, TLC

\* ------------------------------------------------------------------ bounds
\* Rows created by the load handler (DEFAULT_TIERS has 7 entries; the model
\* starts from fewer).
NumDefaultTiers == 1
\* Most rows the tierlist holds at a time.
MaxRows == 2
\* Most images imported in one behaviour.
MaxImports == 2
\* Most placement-marker elements left attached by make_accept_drop.
MaxOrphans == 1

\* Entries of the palette TIER_COLORS in use (7 in the program).
NumTierColors == 2
\* MAX_NAME_LEN (200 in the program), in characters.
MAX_NAME_LEN == 2
\* Most rows, and most item entries of one list, in a tierlist file.
MaxFileRows == 2
MaxFileItems == 1
\* File reads in flight at a time.
MaxReads == 2
\* Most named entries of a file given to the duplicate finder.
MaxEntries == 3
\* Most entries of a file given to the duplicate removal.
MaxDupEntries == 5

\* The button images of div.buttons-container that get_item_index subtracts.
ButtonImages == 4

\* The row [A, B, C, D] of the same-row forward move, as item numbers.
ABCD == <<1, 2, 3, 4>>

Items == (1..MaxImports) \cup {ABCD[i] : i \in 1..Len(ABCD)}

VARIABLES
    rows,               \* Seq of [items: Seq(Items), color], the div.row elements in order
    pool,               \* Seq of [id: Items, wrapped: BOOLEAN]
    target_item_index,  \* JsVal: the closure variable of the surface hovered last
    dragged_image,      \* the grabbed item-container, 0 when null or undefined
    old_item_index,     \* JsVal
    dragged_cls,        \* the items whose container carries the class 'dragged'
    marker_attached,    \* placement_marker_div.parentNode === document.body
    orphan_markers,     \* earlier marker elements still attached to the body
    unsaved_changes,
    created,            \* number of item-containers created so far
    drag,               \* the browser's drag gesture: none, pressed, dragging, dropped,
                        \* foreign, fdropped
    over,               \* the element under the pointer during a drag
    pre_drop,           \* history: what the drop handler that ran in the last step found
    dragged_root,       \* where the parent chain of the grabbed element ends
    io                  \* a tierlist file on its way through load_tierlist and save_tierlist

vars == <<rows, pool, target_item_index, dragged_image, old_item_index, dragged_cls,
          marker_attached, orphan_markers, unsaved_changes, created, drag, over,
          pre_drop, dragged_root, io>>

\* ------------------------------------------------------------ JS values
JsNum(n) == [tag |-> "num", n |-> n]
JsNull == [tag |-> "null", n |-> 0]
JsUndef == [tag |-> "undef", n |-> 0]
JsNaN == [tag |-> "nan", n |-> 0]

\* a < b on JS values: ToNumber(null) = 0, ToNumber(undefined) = NaN, and a
\* comparison with NaN is false.
JsLess(a, b) ==
    /\ a.tag \in {"num", "null"}
    /\ b.tag \in {"num", "null"}
    /\ a.n < b.n

\* v - 1 on JS values.
JsMinusOne(v) ==
    IF v.tag \in {"num", "null"} THEN JsNum(v.n - 1) ELSE JsNaN

\* ------------------------------------------------------------ sequences
SeqRemove(s, i) == [j \in 1..(Len(s) - 1) |-> IF j < i THEN s[j] ELSE s[j + 1]]

SeqInsert(s, i, e) ==
    [j \in 1..(Len(s) + 1) |-> IF j < i THEN s[j] ELSE IF j = i THEN e ELSE s[j - 1]]

Min(S) == CHOOSE m \in S : \A n \in S : m <= n

RECURSIVE Flatten(_)
Flatten(ss) == IF ss = <<>> THEN <<>> ELSE Head(ss) \o Flatten(Tail(ss))

\* ------------------------------------------------------------ DOM
\* Containers: 0 is section.images, r in 1..Len(rows) is the r-th div.row.
Containers == 0..Len(rows)

PoolIds == [i \in 1..Len(pool) |-> pool[i].id]

ItemsOf(c) == IF c = 0 THEN PoolIds ELSE rows[c].items

\* The container holding item x, -1 when x is in none (a detached element).
Loc(x) ==
    IF \E c \in Containers : \E i \in 1..Len(ItemsOf(c)) : ItemsOf(c)[i] = x
    THEN CHOOSE c \in Containers : \E i \in 1..Len(ItemsOf(c)) : ItemsOf(c)[i] = x
    ELSE -1

\* The position (from 1) of x among the children of its container.
Pos(x) == CHOOSE i \in 1..Len(ItemsOf(Loc(x))) : ItemsOf(Loc(x))[i] = x

\* Is the item-container of x the child of a span.item ?
Wrapped(x) == Loc(x) > 0 \/ (Loc(x) = 0 /\ pool[Pos(x)].wrapped)

\* Elements an event can name.
Elem(k, x, r) == [k |-> k, x |-> x, r |-> r]
NoTarget == Elem("none", 0, 0)
ItemKinds == {"img", "label", "container", "span"}
\* div.row, its span.header, the header's label, its span.items.
RowKinds == {"row", "header", "hlabel", "items"}

Targets ==
    {Elem(k, x, 0) : k \in ItemKinds, x \in Items}
        \cup {Elem(k, 0, r) : k \in RowKinds, r \in 1..MaxRows}
        \cup {Elem("images", 0, 0)}

\* t is an element of the document, inside a drop surface.
InDocument(t) ==
    \/ t.k \in {"img", "label", "container"} /\ Loc(t.x) >= 0
    \/ t.k = "span" /\ Loc(t.x) >= 0 /\ Wrapped(t.x)
    \/ t.k \in RowKinds /\ t.r \in 1..Len(rows)
    \/ t.k = "images"

\* The drop surface (make_accept_drop's elem) whose listeners an event on t reaches.
Surface(t) ==
    IF t.k \in ItemKinds THEN Loc(t.x) ELSE IF t.k \in RowKinds THEN t.r ELSE 0

\* node.contains(other) for an item's elements.
Contains(a, b) ==
    /\ a.x # 0
    /\ a.x = b.x
    /\ \/ a = b
       \/ a.k = "span"
       \/ a.k = "container" /\ b.k \in {"img", "label"}

\* ------------------------------------------------------------ get_item_index
\* A selector that matches the item-container of an item only.
ItemElemsContainerOnly(x) == <<Elem("container", x, 0)>>

\* querySelectorAll lists in document order: of every item its item-container,
\* then the img inside it (both selectors of the two lists match both).
ItemElems(x) == <<Elem("container", x, 0), Elem("img", x, 0)>>

RowItemList(r) == Flatten([i \in 1..Len(rows[r].items) |-> ItemElems(rows[r].items[i])])

PoolItemList == Flatten([i \in 1..Len(pool) |-> ItemElems(pool[i].id)])

AllRowsItemList == Flatten([r \in 1..Len(rows) |-> RowItemList(r)])

\* rows[idx].querySelectorAll(".item"): the span.item of every item of the row.
RowItemSpans(r) == [i \in 1..Len(rows[r].items) |-> Elem("span", rows[r].items[i], 0)]

\* The first ancestor of item_elem with class row, bottom-container or
\* toggleable-container.  div.tierlist lies in a div.toggleable-container and
\* section.images in div.bottom-container (index.html).
ParentDiv(elem) ==
    IF elem.k \in ItemKinds
    THEN IF Loc(elem.x) > 0 THEN Elem("row", 0, Loc(elem.x)) ELSE Elem("bottom", 0, 0)
    ELSE IF elem.k \in {"header", "hlabel", "items"} THEN Elem("row", 0, elem.r)
    ELSE IF elem.k = "row" THEN Elem("toggleable", 0, 0)
    ELSE Elem("bottom", 0, 0)

\* item_elem: the span.item (or the parent) of an item-container, the
\* item-container of an img, elem itself otherwise.
ItemElem(elem) ==
    IF elem.k = "container"
    THEN IF Wrapped(elem.x) THEN Elem("span", elem.x, 0) ELSE Elem("images", 0, 0)
    ELSE IF elem.k = "img" THEN Elem("container", elem.x, 0)
    ELSE elem

get_item_index(elem) ==
    LET parent_div == ParentDiv(elem)
        item_elem == ItemElem(elem)
    IN  IF parent_div.k = "row"
        THEN LET item_list == RowItemList(parent_div.r)
                 item_spans == RowItemSpans(parent_div.r)
                 hits == {i \in 1..Len(item_list) :
                            item_list[i] = elem \/ Contains(item_list[i], elem)}
                 span_hits == {i \in 1..Len(item_spans) :
                            item_spans[i] = item_elem \/ Contains(item_spans[i], elem)}
             IN  IF hits # {} THEN JsNum(Min(hits) - 1)
                 ELSE IF span_hits # {} THEN JsNum(Min(span_hits) - 1)
                 ELSE JsNull
        ELSE LET item_list == IF parent_div.k = "bottom" THEN PoolItemList
                              ELSE AllRowsItemList
                 hits == {i \in 1..Len(item_list) :
                            \/ item_list[i] = elem
                            \/ Contains(item_list[i], elem)
                            \/ /\ elem.k = "img"
                               /\ item_list[i] = Elem("container", elem.x, 0)}
             IN  IF hits # {} THEN JsNum(Min(hits) - 1 - ButtonImages)
                 ELSE JsNull

\* ------------------------------------------------------------ document edits
\* A drop that leaves the span.item of x in its row.
RowsKeeping(x) == rows

\* The rows with the row of x emptied.
RowsEmptied(x) ==
    [r \in 1..Len(rows) |-> [rows[r] EXCEPT !.items = IF r = Loc(x) THEN <<>> ELSE @]]

\* The rows with the element of item x taken out of its container.
RowsWithout(x) ==
    [r \in 1..Len(rows) |->
        IF Loc(x) = r THEN [rows[r] EXCEPT !.items = SeqRemove(rows[r].items, Pos(x))]
        ELSE rows[r]]

\* A removal that leaves the pool as it is.
PoolKeeping(x) == pool

\* The pool with the element of item x taken out of it.
PoolWithout(x) == IF Loc(x) = 0 THEN SeqRemove(pool, Pos(x)) ELSE pool

\* children.item(v): a null index converts to 0.
ChildAtCoerced(n, v) ==
    IF v.tag \in {"num", "null"} /\ v.n >= 0 /\ v.n < n THEN v.n + 1 ELSE 0

\* items_container.children[v]: the child's position (from 1), 0 for undefined.
ChildAt(n, v) == IF v.tag = "num" /\ v.n >= 0 /\ v.n < n THEN v.n + 1 ELSE 0

\* An insertion that does nothing without a reference child.
InsertBeforeExisting(s, ref, e) == IF ref = 0 THEN s ELSE SeqInsert(s, ref, e)

\* parent.insertBefore(e, ref): before the child at position ref, at the end
\* when ref is undefined.
InsertBefore(s, ref, e) == IF ref = 0 THEN Append(s, e) ELSE SeqInsert(s, ref, e)

\* A reset_row that appends the item-containers of the row last to first.
ResetRowItemsReversed(r) ==
    [i \in 1..Len(rows[r].items) |->
        [id |-> rows[r].items[Len(rows[r].items) + 1 - i], wrapped |-> FALSE]]

\* A reset_row that removes the span.item elements and appends nothing.
ResetRowItemsDropped(r) == <<>>

\* reset_row: the row's item-containers, unwrapped, in the row's order.
ResetRowItems(r) == [i \in 1..Len(rows[r].items) |-> [id |-> rows[r].items[i], wrapped |-> FALSE]]

\* ------------------------------------------------------------ initial state
NoDrop == [done |-> FALSE, x |-> 0, src |-> -1, dst |-> -1, t |-> NoTarget,
           rows |-> <<>>, pool |-> <<>>, tidx |-> JsUndef, old |-> JsUndef,
           dirty |-> FALSE, err |-> FALSE]

\* The drop handler that ran in the last step threw a TypeError.
DropThrew == [NoDrop EXCEPT !.err = TRUE]

\* The palette, from S to F, as the red, green and blue of each entry.
TIER_COLORS ==
    <<<<255, 102, 102>>, <<240, 167, 49>>, <<244, 217, 91>>, <<102, 255, 102>>,
      <<88, 200, 244>>, <<91, 118, 244>>, <<244, 91, 237>>>>

\* TIER_COLORS[idx % TIER_COLORS.length], as the style of the header holds it.
TierColor(idx) == TIER_COLORS[(idx % NumTierColors) + 1]

\* A new row that takes the first colour of the palette wherever it is put.
NewRowFirstColor(idx) == [items |-> <<>>, color |-> TierColor(0)]

\* A row as add_row and the recompute_header_colors(idx) of its caller leave it.
NewRow(idx) == [items |-> <<>>, color |-> TierColor(idx)]

\* No tierlist file is being read or written.
NoIO == [pc |-> "idle"]

\* The state the load handler leaves: the default rows, an empty pool.
Init ==
    /\ rows = [r \in 1..NumDefaultTiers |-> NewRow(r - 1)]
    /\ pool = <<>>
    /\ target_item_index = JsUndef
    /\ dragged_image = 0
    /\ old_item_index = JsUndef
    /\ dragged_cls = {}
    /\ marker_attached = FALSE
    /\ orphan_markers = 0
    /\ unsaved_changes = FALSE
    /\ created = 0
    /\ drag = "none"
    /\ over = NoTarget
    /\ pre_drop = NoDrop
    /\ dragged_root = "document"
    /\ io = NoIO


\* ------------------------------------------------------------ tierlist files
\* A text is a sequence of characters.  An item name is the textContent of a
\* span.item-label; a row name and the title are the innerText of a label and
\* hold no white space here.  An image source is a data: URI, which img.src
\* gives back as it was set.
ItemNames == {<<"a">>, <<" ", "a">>}
RowNames == {<<"S">>, [i \in 1..(MAX_NAME_LEN + 1) |-> "L"]}
Titles == {<<"T">>}
Srcs == {"p"}

\* The sequences over S of length n or less.
Lists(S, n) == UNION {[1..k -> S] : k \in 0..n}

\* String.prototype.trim, the blank being the white space of the model.
RECURSIVE TrimStart(_)
TrimStart(s) == IF s # <<>> /\ Head(s) = " " THEN TrimStart(Tail(s)) ELSE s

RECURSIVE TrimEnd(_)
TrimEnd(s) ==
    IF s # <<>> /\ s[Len(s)] = " " THEN TrimEnd(SubSeq(s, 1, Len(s) - 1)) ELSE s

Trim(s) == TrimEnd(TrimStart(s))

\* s.substr(0, n)
Substr0(s, n) == SubSeq(s, 1, IF Len(s) < n THEN Len(s) ELSE n)

\* A colour of a file: '#' and six hexadecimal digits, or no color key.
Hex(d) == [kind |-> "hex", d |-> d]
NoColor == [kind |-> "undef", d |-> <<>>]

\* Number.prototype.toString(16), as the sequence of its digits.
RECURSIVE ToString16(_)
ToString16(n) == IF n < 16 THEN <<n>> ELSE Append(ToString16(n \div 16), n % 16)

\* The 32 bits of a number of 0..2^31 - 1, bit 0 the lowest: ToInt32.
Word(n) == [i \in 0..31 |-> IF i = 31 THEN 0 ELSE (n \div 2^i) % 2]

\* w << k and a | b on 32 bits.
ShiftLeft(w, k) == [i \in 0..31 |-> IF i < k THEN 0 ELSE w[i - k]]
BitOr(a, b) == [i \in 0..31 |-> IF a[i] = 1 \/ b[i] = 1 THEN 1 ELSE 0]

\* The value of the bits below bit i, as they are or inverted.
RECURSIVE LowBits(_, _, _)
LowBits(w, i, inverted) ==
    IF i = 0 THEN 0
    ELSE (IF inverted THEN 1 - w[i - 1] ELSE w[i - 1]) * 2^(i - 1) + LowBits(w, i - 1, inverted)

\* The absolute value of the signed 32-bit number w (two's complement).
Magnitude(w) == IF w[31] = 1 THEN LowBits(w, 31, TRUE) + 1 ELSE LowBits(w, 31, FALSE)

\* "#" + (1 << 24 | r << 16 | g << 8 | b).toString(16).slice(1), on signed
\* 32-bit numbers: toString(16) of a negative number is a minus sign and the
\* digits of its absolute value, and slice(1) drops the first character.
rgb_to_hex(r, g, b) ==
    LET w == BitOr(BitOr(BitOr(ShiftLeft(Word(1), 24), ShiftLeft(Word(r), 16)),
                         ShiftLeft(Word(g), 8)), Word(b))
    IN  Hex(IF w[31] = 1 THEN ToString16(Magnitude(w)) ELSE Tail(ToString16(Magnitude(w))))

\* What header.style.backgroundColor holds once a '#rrggbb' string is assigned
\* to it: rgb(r, g, b), kept here as its three channels.
CssColor(c) == <<16 * c.d[1] + c.d[2], 16 * c.d[3] + c.d[4], 16 * c.d[5] + c.d[6]>>

\* The colours a row of a file has: none, or the second of the palette.
FileColors == {NoColor, rgb_to_hex(TierColor(1)[1], TierColor(1)[2], TierColor(1)[3])}

\* An item entry of a file: an object with src and name, a bare string
\* (legacy), or a value that is neither (a number, an object without src).
Obj(src, name) == [form |-> "obj", src |-> src, name |-> name]
Str(src) == [form |-> "str", src |-> src, name |-> <<>>]
Bad == [form |-> "bad", src |-> "", name |-> <<>>]

Entries == {Obj(src, n) : src \in Srcs, n \in ItemNames} \cup {Str(src) : src \in Srcs} \cup {Bad}

\* The name and colour of a row entry.
RowHeads == [name : RowNames, color : FileColors]

\* The entries of es that place puts in list k, in their order.
Pick(es, place, k) ==
    LET idx == SelectSeq([j \in 1..Len(es) |-> j], LAMBDA j : place[j] = k)
    IN  [i \in 1..Len(idx) |-> es[idx[i]]]

\* The ways to deal n entries, in order, to m lists.
Places(n, m) == {pl \in [1..n -> 1..m] : \A i, j \in 1..n : i < j => pl[i] <= pl[j]}

\* The shape of the value JSON.parse gives: "ok" for an object whose rows and
\* untiered (if any) are arrays; else null, a number other than 0, an object
\* without rows key, an object whose rows is a number, an object whose
\* untiered is a number other than 0.
Shapes == {"ok", "null", "number", "no_rows", "rows_number", "untiered_number"}

\* The file with the row heads hs, the entries es dealt by place to the imgs
\* of the rows and (list Len(hs) + 1) to untiered, and an untiered key or none.
MakeFile(title, hs, es, place, has_untiered) ==
    [shape |-> "ok",
     title |-> title,
     rows |-> [i \in 1..Len(hs) |->
                  [name |-> hs[i].name, color |-> hs[i].color, has_imgs |-> TRUE,
                   imgs |-> Pick(es, place, i)]],
     has_untiered |-> has_untiered,
     untiered |-> Pick(es, place, Len(hs) + 1)]

\* String(undefined), the text a label shows once undefined is assigned to
\* its innerText.
UndefinedText == <<"u", "n", "d", "e", "f", "i", "n", "e", "d">>

\* The items load_tierlist creates for a list of entries: one for a string,
\* one for an object with a src, none for anything else.
LoadedItems(entries) ==
    Flatten([i \in 1..Len(entries) |->
        IF entries[i].form = "str"
        THEN <<[src |-> entries[i].src, name |-> <<>>]>>
        ELSE IF entries[i].form = "obj" /\ entries[i].src # ""
        THEN <<[src |-> entries[i].src, name |-> entries[i].name]>>
        ELSE <<>>])

\* recompute_header_colors(): every row gets the palette colour of its place.
Recolored(rs) == [i \in 1..Len(rs) |-> [rs[i] EXCEPT !.color = TierColor(i - 1)]]

\* The rows of the document after the first k passes of load_tierlist's loop
\* over ser_rows (the document was emptied before, so add_row appends).
RECURSIVE LoadedRows(_, _)
LoadedRows(ser_rows, k) ==
    IF k = 0 THEN <<>>
    ELSE LET ser_row == ser_rows[k]
             before == LoadedRows(ser_rows, k - 1)
             elem == [name |-> ser_row.name,
                      items |-> LoadedItems(IF ser_row.has_imgs THEN ser_row.imgs
                                            ELSE <<>>),
                      color |-> IF ser_row.color = NoColor THEN TierColor(k - 1)
                                ELSE CssColor(ser_row.color)]
         IN  IF ser_row.color # NoColor THEN Append(before, elem)
             ELSE Recolored(Append(before, elem))

\* load_tierlist throws a TypeError: at serialized_tierlist.title of null, at
\* the for-of over an untiered that is a number.
LoadThrows(serialized_tierlist) ==
    \/ serialized_tierlist.shape = "null"
    \/ serialized_tierlist.shape = "untiered_number" /\ serialized_tierlist.has_untiered

\* The import callback's test !parsed: alert("Failed to parse data"), return.
Rejected(parsed) == parsed.shape = "null"

\* loadJsonFile of the utilities rejects the file: the root is not an object,
\* rows is not an array, untiered is there and is not an array.
loadJsonFile(parsed) ==
    IF \/ parsed.shape \in {"null", "number"}
       \/ parsed.shape \in {"no_rows", "rows_number"}
       \/ parsed.shape = "untiered_number" /\ parsed.has_untiered
    THEN "rejected"
    ELSE "resolved"

\* The document load_tierlist builds in an emptied page, up to its end or to
\* the TypeError it throws (for a value other than null).  A number has no
\* title, rows or untiered; the for-in over a missing rows or over a number
\* does nothing.
load_tierlist(serialized_tierlist) ==
    [title |-> IF serialized_tierlist.shape = "number" THEN UndefinedText
               ELSE serialized_tierlist.title,
     rows |-> IF serialized_tierlist.shape \in {"ok", "untiered_number"}
              THEN LoadedRows(serialized_tierlist.rows, Len(serialized_tierlist.rows))
              ELSE <<>>,
     pool |-> IF /\ serialized_tierlist.shape \in {"ok", "no_rows", "rows_number"}
                 /\ serialized_tierlist.has_untiered
              THEN LoadedItems(serialized_tierlist.untiered)
              ELSE <<>>]

\* The imgs of a row: one object for every item-container.
SavedItems(items) == [j \in 1..Len(items) |-> Obj(items[j].src, Trim(items[j].name))]

\* The entries pushed for the elements that
\* querySelectorAll('.images .item-container, .images img.draggable') lists:
\* of every item of the pool its item-container (an object), then the img
\* inside it (its src, a bare string).
SavedUntiered(items) ==
    Flatten([j \in 1..Len(items) |->
        <<Obj(items[j].src, Trim(items[j].name)), Str(items[j].src)>>])

\* The value save_tierlist hands to JSON.stringify.
save_tierlist(doc) ==
    [shape |-> "ok",
     title |-> doc.title,
     rows |-> [i \in 1..Len(doc.rows) |->
                  [name |-> Substr0(doc.rows[i].name, MAX_NAME_LEN),
                   color |-> rgb_to_hex(doc.rows[i].color[1], doc.rows[i].color[2],
                                        doc.rows[i].color[3]),
                   has_imgs |-> TRUE,
                   imgs |-> SavedItems(doc.rows[i].items)]],
     has_untiered |-> Len(doc.pool) > 0,
     untiered |-> SavedUntiered(doc.pool)]

\* ------------------------------------------------------------ handlers
\* end_drag: the window's mouseup and dragend listener.
end_drag ==
    /\ marker_attached' = FALSE
    /\ dragged_cls' = dragged_cls \ {dragged_image}
    /\ dragged_image' = 0
    /\ dragged_root' = "document"

\* The FileReader load callback of an imported or pasted image.
ImportImage ==
    /\ created < MaxImports
    /\ created' = created + 1
    /\ pool' = Append(pool, [id |-> created + 1, wrapped |-> FALSE])
    /\ unsaved_changes' = TRUE
    /\ pre_drop' = NoDrop
    /\ UNCHANGED <<rows, target_item_index, dragged_image, old_item_index, dragged_cls,
                   marker_attached, orphan_markers, drag, over, dragged_root, io>>

\* mousedown on the img of item x.
MouseDown(x) ==
    /\ drag = "none"
    /\ Loc(x) >= 0
    /\ dragged_image' = x
    /\ dragged_cls' = dragged_cls \cup {x}
    /\ old_item_index' = get_item_index(Elem("container", x, 0))
    /\ drag' = "pressed"
    /\ dragged_root' = "document"
    /\ UNCHANGED <<rows, pool, target_item_index, marker_attached, orphan_markers,
                   unsaved_changes, created, over, pre_drop, io>>

\* mouseup with no drag under way: a click anywhere in the window.
MouseUp ==
    /\ drag \in {"none", "pressed"}
    /\ end_drag
    /\ drag' = "none"
    /\ UNCHANGED <<rows, pool, target_item_index, old_item_index, orphan_markers,
                   unsaved_changes, created, over, pre_drop, io>>

\* The pressed img starts to move: the browser begins the drag (ondragstart holds
\* a string, so no handler runs).
DragStart ==
    /\ drag = "pressed"
    /\ drag' = "dragging"
    /\ UNCHANGED <<rows, pool, target_item_index, dragged_image, old_item_index,
                   dragged_cls, marker_attached, orphan_markers, unsaved_changes,
                   created, over, pre_drop, dragged_root, io>>

\* A drag is under way: of an item ("dragging"), or of something that is no
\* item, such as a file of the desktop or a selected text ("foreign").
Dragging == {"dragging", "foreign"}

\* The element get_item_index is asked about on a dragenter of t.
TargetElem(t) == IF t.k = "label" THEN Elem("container", t.x, 0) ELSE t

\* A dragenter that marks the document dirty.
DragEnterDirty(t) ==
    /\ drag \in Dragging
    /\ InDocument(t)
    /\ t # over
    /\ over' = t
    /\ target_item_index' = get_item_index(TargetElem(t))
    /\ marker_attached' = TRUE
    /\ unsaved_changes' = TRUE
    /\ UNCHANGED <<rows, pool, dragged_image, old_item_index, dragged_cls,
                   orphan_markers, created, drag, pre_drop, dragged_root, io>>

\* dragenter on t, heard by the surface that holds t.
DragEnter(t) ==
    /\ drag \in Dragging
    /\ InDocument(t)
    /\ t # over
    /\ over' = t
    /\ target_item_index' = get_item_index(TargetElem(t))
    /\ marker_attached' = TRUE
    /\ UNCHANGED <<rows, pool, dragged_image, old_item_index, dragged_cls,
                   orphan_markers, unsaved_changes, created, drag, pre_drop,
                   dragged_root, io>>

\* A dragleave that takes the marker off the body.
DragLeaveClears ==
    /\ drag \in Dragging
    /\ over # NoTarget
    /\ over' = NoTarget
    /\ marker_attached' = FALSE
    /\ UNCHANGED <<rows, pool, target_item_index, dragged_image, old_item_index,
                   dragged_cls, orphan_markers, unsaved_changes, created, drag,
                   pre_drop, dragged_root, io>>

\* dragleave: the pointer leaves the element it was over for no other one.
DragLeave ==
    /\ drag \in Dragging
    /\ over # NoTarget
    /\ over' = NoTarget
    /\ UNCHANGED <<rows, pool, target_item_index, dragged_image, old_item_index,
                   dragged_cls, marker_attached, orphan_markers, unsaved_changes,
                   created, drag, pre_drop, dragged_root, io>>

\* dragover: preventDefault only.
DragOver ==
    /\ drag \in Dragging
    /\ over # NoTarget
    /\ UNCHANGED vars

\* items_container.parentNode === old_item_row: the grabbed item-container lies
\* in a span.item whose container is the surface the drop is on.
SameRow(c, x) == Wrapped(x) /\ Loc(x) = c

\* target_item_index as the drop handler leaves it before placing.
AdjustedIndex(c, x) ==
    IF SameRow(c, x) /\ JsLess(old_item_index, target_item_index)
    THEN JsMinusOne(target_item_index)
    ELSE target_item_index

\* appendChild on a div.row target, insertBefore children[target_item_index]
\* on any other.
Placed(s, t, idx, e) ==
    IF t.k = "row" THEN Append(s, e) ELSE InsertBefore(s, ChildAt(Len(s), idx), e)

\* The grabbed element is an element of the document.
Grabbed == dragged_image # 0 /\ Loc(dragged_image) >= 0

\* A drop handler without the check of dragged_image.
AlwaysMovable == TRUE

\* The drop handler can move the grabbed element: it is in the document, or
\* it is in a span.item of a span.items of a div.row that hard_reset_list took
\* out of the document.
Movable ==
    /\ dragged_image # 0
    /\ Loc(dragged_image) >= 0 \/ dragged_root = "row"

\* The phase after a drop.
AfterDrop == IF drag = "dragging" THEN "dropped" ELSE "fdropped"

\* drop on t, heard by the surface that holds t.  With nothing grabbed the
\* handler returns; with a grabbed element that has no parent, or whose
\* span.item has none, it throws a TypeError (dragged_image_parent.tagName,
\* containing_tr.parentNode) before it changes anything.
Drop(t) ==
    /\ drag \in Dragging
    /\ t # NoTarget
    /\ over = t
    /\ InDocument(t)
    /\ drag' = AfterDrop
    /\ IF Movable
       THEN LET c == Surface(t)
                x == dragged_image
                idx == AdjustedIndex(c, x)
                rows1 == RowsWithout(x)
                pool1 == PoolWithout(x)
            IN  /\ rows' = IF c = 0 THEN rows1
                           ELSE [rows1 EXCEPT ![c].items = Placed(rows1[c].items, t, idx, x)]
                /\ pool' = IF c = 0
                           THEN Placed(pool1, t, idx, [id |-> x, wrapped |-> TRUE])
                           ELSE pool1
                /\ target_item_index' = idx
                /\ unsaved_changes' = TRUE
                /\ dragged_root' = "document"
                /\ pre_drop' = [done |-> TRUE, x |-> x, src |-> Loc(x), dst |-> c,
                                t |-> t, rows |-> rows, pool |-> pool,
                                tidx |-> target_item_index, old |-> old_item_index,
                                dirty |-> unsaved_changes, err |-> FALSE]
       ELSE /\ pre_drop' = IF dragged_image = 0 THEN NoDrop ELSE DropThrew
            /\ UNCHANGED <<rows, pool, target_item_index, unsaved_changes, dragged_root>>
    /\ UNCHANGED <<dragged_image, old_item_index, dragged_cls, marker_attached,
                   orphan_markers, created, over, io>>

\* drop on the trash image: the grabbed item-container (and its span.item)
\* leaves the document.  With nothing grabbed the handler does nothing; with
\* a grabbed element that has no parent, or whose span.item has none, it
\* throws a TypeError before it changes anything.
TrashDrop ==
    /\ drag \in Dragging
    /\ over = NoTarget
    /\ drag' = AfterDrop
    /\ IF Grabbed
       THEN /\ rows' = RowsWithout(dragged_image)
            /\ pool' = PoolWithout(dragged_image)
            /\ dragged_root' = "alone"
            /\ pre_drop' = [done |-> TRUE, x |-> dragged_image,
                            src |-> Loc(dragged_image), dst |-> -1, t |-> NoTarget,
                            rows |-> rows, pool |-> pool, tidx |-> JsUndef,
                            old |-> old_item_index, dirty |-> unsaved_changes, err |-> FALSE]
       ELSE /\ dragged_root' = IF Movable THEN "alone" ELSE dragged_root
            /\ pre_drop' = IF dragged_image = 0 \/ Movable THEN NoDrop ELSE DropThrew
            /\ UNCHANGED <<rows, pool>>
    /\ UNCHANGED <<target_item_index, dragged_image, old_item_index, dragged_cls,
                   marker_attached, orphan_markers, unsaved_changes, created, over, io>>

\* The drag is over (after a drop, a release outside every surface or a
\* cancel): the browser fires dragend at the dragged img.  The event reaches
\* the window's listener only while the img is in the document.
DragEnd ==
    /\ drag \in {"dragging", "dropped"}
    /\ drag' = "none"
    /\ over' = NoTarget
    /\ pre_drop' = NoDrop
    /\ IF Grabbed
       THEN end_drag
       ELSE UNCHANGED <<marker_attached, dragged_cls, dragged_image, dragged_root>>
    /\ UNCHANGED <<rows, pool, target_item_index, old_item_index, orphan_markers,
                   unsaved_changes, created, io>>

\* A drag of something that is no item begins: no mousedown handler ran.
ForeignDragStart ==
    /\ drag = "none"
    /\ drag' = "foreign"
    /\ UNCHANGED <<rows, pool, target_item_index, dragged_image, old_item_index,
                   dragged_cls, marker_attached, orphan_markers, unsaved_changes,
                   created, over, pre_drop, dragged_root, io>>

\* The end of such a drag.  dragend is fired at the source of the drag: the
\* window's listener hears it when the source is an element of the page, and
\* no dragend is fired in the page when the source lies outside of it.
ForeignDragEnd(heard) ==
    /\ drag \in {"foreign", "fdropped"}
    /\ drag' = "none"
    /\ over' = NoTarget
    /\ pre_drop' = NoDrop
    /\ IF heard
       THEN end_drag
       ELSE UNCHANGED <<marker_attached, dragged_cls, dragged_image, dragged_root>>
    /\ UNCHANGED <<rows, pool, target_item_index, old_item_index, orphan_markers,
                   unsaved_changes, created, io>>

\* add_row(idx, name) from the '+' button above or below a row, idx counted
\* from 0, with the make_accept_drop call that replaces placement_marker_div.
AddRow(idx) ==
    /\ drag = "none"
    /\ Len(rows) >= 1
    /\ Len(rows) < MaxRows
    /\ idx \in 0..Len(rows)
    /\ marker_attached => orphan_markers < MaxOrphans
    /\ rows' = SeqInsert(rows, idx + 1, NewRow(idx))
    /\ orphan_markers' = IF marker_attached THEN orphan_markers + 1 ELSE orphan_markers
    /\ marker_attached' = FALSE
    /\ UNCHANGED <<pool, target_item_index, dragged_image, old_item_index, dragged_cls,
                   unsaved_changes, created, drag, over, pre_drop, dragged_root, io>>

\* The '-' button of row r, the confirmation given: rm_row.
RemoveRow(r) ==
    /\ drag = "none"
    /\ Len(rows) >= 2
    /\ r \in 1..Len(rows)
    /\ pool' = pool \o ResetRowItems(r)
    /\ rows' = SeqRemove(rows, r)
    /\ UNCHANGED <<target_item_index, dragged_image, old_item_index, dragged_cls,
                   marker_attached, orphan_markers, unsaved_changes, created, drag,
                   over, pre_drop, dragged_root, io>>

\* A soft reset that leaves the document marked as saved.
SoftResetSaved ==
    /\ drag = "none"
    /\ pool' = pool \o Flatten([r \in 1..Len(rows) |-> ResetRowItems(r)])
    /\ rows' = [r \in 1..Len(rows) |-> [rows[r] EXCEPT !.items = <<>>]]
    /\ unsaved_changes' = FALSE
    /\ UNCHANGED <<target_item_index, dragged_image, old_item_index, dragged_cls,
                   marker_attached, orphan_markers, created, drag, over, pre_drop,
                   dragged_root, io>>

\* The reset button, the confirmation given: soft_reset_list.
SoftReset ==
    /\ drag = "none"
    /\ pool' = pool \o Flatten([r \in 1..Len(rows) |-> ResetRowItems(r)])
    /\ rows' = [r \in 1..Len(rows) |-> [rows[r] EXCEPT !.items = <<>>]]
    /\ unsaved_changes' = TRUE
    /\ UNCHANGED <<target_item_index, dragged_image, old_item_index, dragged_cls,
                   marker_attached, orphan_markers, created, drag, over, pre_drop,
                   dragged_root, io>>

\* The export button, a name given: save_tierlist, then save.
save ==
    /\ drag = "none"
    /\ unsaved_changes' = FALSE
    /\ UNCHANGED <<rows, pool, target_item_index, dragged_image, old_item_index,
                   dragged_cls, marker_attached, orphan_markers, created, drag, over,
                   pre_drop, dragged_root, io>>

Next ==
    \/ ImportImage
    \/ \E x \in Items : MouseDown(x)
    \/ MouseUp
    \/ DragStart
    \/ \E t \in Targets : DragEnter(t)
    \/ DragLeave
    \/ DragOver
    \/ \E t \in Targets : Drop(t)
    \/ TrashDrop
    \/ DragEnd
    \/ \E idx \in 0..MaxRows : AddRow(idx)
    \/ \E r \in 1..MaxRows : RemoveRow(r)
    \/ SoftReset
    \/ save

Spec == Init /\ [][Next]_vars

\* ------------------------------------------------------------ whole editor
\* The tierlist files the editor is given: a row of the second palette colour
\* holding one item;
\* two rows without color keys and one legacy entry in untiered; no rows.
\* The file {"title": "x"}: an object without rows and without untiered.
TitleOnlyFile == [MakeFile(<<"x">>, <<>>, <<>>, <<>>, FALSE) EXCEPT !.shape = "no_rows"]

ImportFiles ==
    {MakeFile(<<"T">>, <<[name |-> <<"S">>,
                          color |-> rgb_to_hex(TierColor(1)[1], TierColor(1)[2],
                                               TierColor(1)[3])]>>,
              <<Obj("p", <<"a">>)>>, <<1>>, FALSE),
     MakeFile(<<"T">>, <<[name |-> <<"S">>, color |-> NoColor],
                         [name |-> <<"S">>, color |-> NoColor]>>,
              <<Str("p")>>, <<3>>, TRUE),
     MakeFile(<<"T">>, <<>>, <<>>, <<>>, FALSE),
     TitleOnlyFile}

\* Number of items in the rows before row r of a loaded document.
ItemsBefore(doc, r) == Len(Flatten([q \in 1..(r - 1) |-> doc.rows[q].items]))

\* Where the parent chain of element x ends once hard_reset_list has emptied
\* div.tierlist and section.images: at its div.row, at its span.item, at x.
RootAfterReset(x) ==
    IF Loc(x) > 0 THEN "row" ELSE IF Wrapped(x) THEN "span" ELSE "alone"

\* The pool of a page that had the items before it appended to the pool of
\* doc, as if untiered_images had not been emptied.
PoolAppended(doc, nrows) ==
    pool \o [j \in 1..Len(doc.pool) |->
                [id |-> created + ItemsBefore(doc, nrows + 1) + j, wrapped |-> FALSE]]

\* The pool once hard_reset_list has emptied untiered_images and
\* load_tierlist has appended the items of doc's pool, all new elements.
PoolLoaded(doc, nrows) ==
    [j \in 1..Len(doc.pool) |->
        [id |-> created + ItemsBefore(doc, nrows + 1) + j, wrapped |-> FALSE]]

\* hard_reset_list, then load_tierlist up to its end or to the TypeError it
\* throws, doc being what it builds: its add_row calls replace
\* placement_marker_div, its last statement clears unsaved_changes.
LoadInto(doc, ended) ==
    LET nrows == Len(doc.rows)
        n == ItemsBefore(doc, nrows + 1) + Len(doc.pool)
    IN  /\ created + n <= MaxImports
        /\ nrows <= MaxRows
        /\ (marker_attached /\ nrows > 0) => orphan_markers < MaxOrphans
        /\ rows' = [r \in 1..nrows |->
                       [items |-> [j \in 1..Len(doc.rows[r].items) |->
                                      created + ItemsBefore(doc, r) + j],
                        color |-> doc.rows[r].color]]
        /\ pool' = PoolLoaded(doc, nrows)
        /\ created' = created + n
        /\ unsaved_changes' = IF ended THEN FALSE ELSE unsaved_changes
        /\ orphan_markers' = IF marker_attached /\ nrows > 0 THEN orphan_markers + 1
                             ELSE orphan_markers
        /\ marker_attached' = (marker_attached /\ nrows = 0)
        /\ dragged_root' = IF Grabbed THEN RootAfterReset(dragged_image) ELSE dragged_root
        /\ over' = NoTarget
        /\ pre_drop' = NoDrop
        /\ UNCHANGED <<target_item_index, dragged_image, old_item_index, dragged_cls,
                       drag>>

\* The load callback of the FileReader of the import input, the file parsed:
\* a value that is not falsy passes the test, then hard_reset_list, then
\* load_tierlist.  The callback runs whenever the read completes.
ImportTierlist(f) ==
    /\ ~Rejected(f)
    /\ LoadInto(load_tierlist(f), ~LoadThrows(f))
    /\ UNCHANGED io

\* The colour the user picks in a row's colour picker: the second of the
\* palette.
PickedColor == TierColor(1)

\* change_label of the header of row r: the label takes the text of the
\* input, the header the value of the picker, which is the header's colour
\* unless the user picked one.
change_label(r, picked) ==
    /\ drag = "none"
    /\ r \in 1..Len(rows)
    /\ rows' = [rows EXCEPT ![r].color = IF picked THEN PickedColor ELSE @]
    /\ unsaved_changes' = TRUE
    /\ pre_drop' = NoDrop
    /\ UNCHANGED <<pool, target_item_index, dragged_image, old_item_index, dragged_cls,
                   marker_attached, orphan_markers, created, drag, over, dragged_root, io>>

\* The export button, the prompt cancelled or left empty: nothing is saved.
ExportCancelled ==
    /\ drag = "none"
    /\ UNCHANGED vars

NextAll ==
    \/ Next
    \/ ForeignDragStart
    \/ \E heard \in BOOLEAN : ForeignDragEnd(heard)
    \/ \E f \in ImportFiles : ImportTierlist(f)
    \/ \E r \in 1..MaxRows : \E picked \in BOOLEAN : change_label(r, picked)
    \/ ExportCancelled

SpecAll == Init /\ [][NextAll]_vars

\* ------------------------------------------------------------ one loaded row
\* The state after the load handler and the import of a tierlist file that
\* holds the single row [A, B, C, D] (hard_reset_list, then load_tierlist),
\* and the drag gestures from there that end on a row, on the pool or nowhere.
InitABCD ==
    /\ rows = <<[items |-> ABCD, color |-> TierColor(0)]>>
    /\ pool = <<>>
    /\ target_item_index = JsUndef
    /\ dragged_image = 0
    /\ old_item_index = JsUndef
    /\ dragged_cls = {}
    /\ marker_attached = FALSE
    /\ orphan_markers = 0
    /\ unsaved_changes = FALSE
    /\ created = Len(ABCD)
    /\ drag = "none"
    /\ over = NoTarget
    /\ pre_drop = NoDrop
    /\ dragged_root = "document"
    /\ io = NoIO

NextDrag ==
    \/ \E x \in Items : MouseDown(x)
    \/ MouseUp
    \/ DragStart
    \/ \E t \in Targets : DragEnter(t)
    \/ DragLeave
    \/ DragOver
    \/ \E t \in Targets : Drop(t)
    \/ DragEnd

SpecABCD == InitABCD /\ [][NextDrag]_vars

\* ------------------------------------------------------------ files in and out
\* A tierlist file on its way through the editor: read by load_tierlist into
\* an emptied page, written by save_tierlist, and read again.
NoDoc == [title |-> <<>>, rows |-> <<>>, pool |-> <<>>]

\* The file f parsed to a value of the given shape, the imgs key of its
\* first row left out or not.
Shaped(f, shape, no_imgs) ==
    [f EXCEPT !.shape = shape,
              !.rows = IF no_imgs THEN [@ EXCEPT ![1].has_imgs = FALSE] ELSE @]

NoFile == MakeFile(<<>>, <<>>, <<>>, <<>>, FALSE)

InitIO ==
    /\ rows = [r \in 1..NumDefaultTiers |-> NewRow(r - 1)]
    /\ pool = <<>>
    /\ target_item_index = JsUndef
    /\ dragged_image = 0
    /\ old_item_index = JsUndef
    /\ dragged_cls = {}
    /\ marker_attached = FALSE
    /\ orphan_markers = 0
    /\ unsaved_changes = FALSE
    /\ created = 0
    /\ drag = "none"
    /\ over = NoTarget
    /\ pre_drop = NoDrop
    /\ dragged_root = "document"
    /\ \E title \in Titles, hs \in Lists(RowHeads, MaxFileRows),
          es \in Lists(Entries, MaxFileItems), has_untiered \in BOOLEAN :
         \E place \in Places(Len(es), Len(hs) + 1) :
          \E shape \in Shapes, no_imgs \in BOOLEAN :
            /\ has_untiered \/ \A j \in 1..Len(es) : place[j] <= Len(hs)
            /\ shape = "untiered_number" => has_untiered
            /\ no_imgs => Len(hs) >= 1 /\ \A j \in 1..Len(es) : place[j] # 1
            /\ io = [pc |-> "file",
                     file |-> Shaped(MakeFile(title, hs, es, place, has_untiered),
                                     shape, no_imgs),
                     err |-> "none",
                     doc |-> NoDoc, out |-> NoFile, doc2 |-> NoDoc]

\* The import callback on the file: the alert, or hard_reset_list and
\* load_tierlist, which ends or throws.
ImportFile ==
    /\ io.pc = "file"
    /\ io' = [io EXCEPT !.pc = "loaded",
                        !.err = IF Rejected(io.file) THEN "rejected"
                                ELSE IF LoadThrows(io.file) THEN "threw"
                                ELSE "none",
                        !.doc = IF Rejected(io.file) THEN @ ELSE load_tierlist(io.file)]
    /\ UNCHANGED <<rows, pool, target_item_index, dragged_image, old_item_index,
                   dragged_cls, marker_attached, orphan_markers, unsaved_changes,
                   created, drag, over, pre_drop, dragged_root>>

\* save_tierlist of the document the file gave.
ExportFile ==
    /\ io.pc = "loaded"
    /\ io' = [io EXCEPT !.pc = "saved", !.out = save_tierlist(io.doc)]
    /\ UNCHANGED <<rows, pool, target_item_index, dragged_image, old_item_index,
                   dragged_cls, marker_attached, orphan_markers, unsaved_changes,
                   created, drag, over, pre_drop, dragged_root>>

\* hard_reset_list and load_tierlist of the file that was written.
ImportBack ==
    /\ io.pc = "saved"
    /\ io' = [io EXCEPT !.pc = "reloaded", !.doc2 = load_tierlist(io.out)]
    /\ UNCHANGED <<rows, pool, target_item_index, dragged_image, old_item_index,
                   dragged_cls, marker_attached, orphan_markers, unsaved_changes,
                   created, drag, over, pre_drop, dragged_root>>

NextIO ==
    \/ ImportFile
    \/ ExportFile
    \/ ImportBack

SpecIO == InitIO /\ [][NextIO]_vars

\* ---- the remote import and the file reads in flight ----

\* The letters of the url strings.
Letters == {"a", "d", "h", "r"}

\* An absolute URL (a scheme, then //host) and a relative path (dir/file).
AbsoluteUrl == <<"h", ":", "/", "/", "a">>
RelativePath == <<"d", "/", "r">>

\* What URLSearchParams.get('url') gives: null without the parameter, else
\* its string.
UrlParams ==
    {[given |-> FALSE, str |-> <<>>], [given |-> TRUE, str |-> <<>>],
     [given |-> TRUE, str |-> AbsoluteUrl], [given |-> TRUE, str |-> RelativePath]}

\* new URL(str), without a base, succeeds: str starts with a scheme, letters
\* up to a colon (none of these one-letter schemes is a special scheme, which
\* would need a host too).
is_url(str) ==
    \E i \in 2..Len(str) : str[i] = ":" /\ \A j \in 1..(i - 1) : str[j] \in Letters

\* The value null, which the text null parses to.
NullFile == [MakeFile(<<>>, <<>>, <<>>, <<>>, FALSE) EXCEPT !.shape = "null"]

\* The page after the load handler: the default rows, and
\* try_load_tierlist_json run up to its first await, the fetch made or not.
InitRemote ==
    /\ rows = [r \in 1..NumDefaultTiers |-> NewRow(r - 1)]
    /\ pool = <<>>
    /\ target_item_index = JsUndef
    /\ dragged_image = 0
    /\ old_item_index = JsUndef
    /\ dragged_cls = {}
    /\ marker_attached = FALSE
    /\ orphan_markers = 0
    /\ unsaved_changes = FALSE
    /\ created = 0
    /\ drag = "none"
    /\ over = NoTarget
    /\ pre_drop = NoDrop
    /\ dragged_root = "document"
    /\ \E load_from_url \in UrlParams :
          io = [pc |-> "remote",
                url |-> load_from_url,
                fetch |-> IF load_from_url.given /\ is_url(load_from_url.str)
                          THEN "fetching" ELSE "none",
                reads |-> {},
                last |-> NullFile,
                tick |-> FALSE]

\* await fetch(load_from_url) resolves: result.json() starts.
FetchResolved ==
    /\ io.fetch = "fetching"
    /\ io' = [io EXCEPT !.fetch = "parsing"]
    /\ UNCHANGED <<rows, pool, target_item_index, dragged_image, old_item_index,
                   dragged_cls, marker_attached, orphan_markers, unsaved_changes,
                   created, drag, over, pre_drop, dragged_root>>

\* await fetch(load_from_url) rejects: catch, console.error.
FetchRejected ==
    /\ io.fetch = "fetching"
    /\ io' = [io EXCEPT !.fetch = "fetch_failed"]
    /\ UNCHANGED <<rows, pool, target_item_index, dragged_image, old_item_index,
                   dragged_cls, marker_attached, orphan_markers, unsaved_changes,
                   created, drag, over, pre_drop, dragged_root>>

\* A catch that runs after hard_reset_list.
JsonRejectedAfterReset ==
    /\ io.fetch = "parsing"
    /\ io' = [io EXCEPT !.fetch = "json_failed"]
    /\ rows' = <<>>
    /\ pool' = <<>>
    /\ UNCHANGED <<target_item_index, dragged_image, old_item_index,
                   dragged_cls, marker_attached, orphan_markers, unsaved_changes,
                   created, drag, over, pre_drop, dragged_root>>

\* await result.json() rejects: catch, console.error.
JsonRejected ==
    /\ io.fetch = "parsing"
    /\ io' = [io EXCEPT !.fetch = "json_failed"]
    /\ UNCHANGED <<rows, pool, target_item_index, dragged_image, old_item_index,
                   dragged_cls, marker_attached, orphan_markers, unsaved_changes,
                   created, drag, over, pre_drop, dragged_root>>

\* await result.json() resolves to f: hard_reset_list, load_tierlist(f), a
\* TypeError of load_tierlist caught (null has no title to read: the page
\* stays empty).
RemoteLoaded(f) ==
    /\ io.fetch = "parsing"
    /\ LoadInto(IF f.shape = "null" THEN NoDoc ELSE load_tierlist(f), ~LoadThrows(f))
    /\ io' = [io EXCEPT !.fetch = IF LoadThrows(f) THEN "load_threw" ELSE "loaded",
                        !.last = f,
                        !.tick = ~@]

\* The input event of the import input: reader.readAsText(file) starts.
StartRead(f) ==
    /\ io.pc = "remote"
    /\ f \notin io.reads
    /\ Cardinality(io.reads) < MaxReads
    /\ io' = [io EXCEPT !.reads = @ \cup {f}]
    /\ UNCHANGED <<rows, pool, target_item_index, dragged_image, old_item_index,
                   dragged_cls, marker_attached, orphan_markers, unsaved_changes,
                   created, drag, over, pre_drop, dragged_root>>

\* The load callback of a read in flight: the alert for a falsy value, else
\* hard_reset_list and load_tierlist.
ReadLoaded(f) ==
    /\ io.pc = "remote"
    /\ f \in io.reads
    /\ IF Rejected(f)
       THEN /\ io' = [io EXCEPT !.reads = @ \ {f}]
            /\ UNCHANGED <<rows, pool, target_item_index, dragged_image, old_item_index,
                           dragged_cls, marker_attached, orphan_markers,
                           unsaved_changes, created, drag, over, pre_drop,
                           dragged_root>>
       ELSE /\ LoadInto(load_tierlist(f), ~LoadThrows(f))
            /\ io' = [io EXCEPT !.reads = @ \ {f}, !.last = f, !.tick = ~@]

\* The files the response of the fetch parses to.
RemoteFiles == ImportFiles \cup {NullFile}

NextRemote ==
    \/ FetchResolved
    \/ FetchRejected
    \/ JsonRejected
    \/ \E f \in RemoteFiles : RemoteLoaded(f)
    \/ \E f \in ImportFiles : StartRead(f)
    \/ \E f \in ImportFiles : ReadLoaded(f)
    \/ ImportImage
    \/ \E idx \in 0..MaxRows : AddRow(idx)
    \/ \E r \in 1..MaxRows : RemoveRow(r)
    \/ SoftReset
    \/ save

SpecRemote == InitRemote /\ [][NextRemote]_vars

\* ---- the duplicate finder of the utilities ----

\* The names of the entries of a drawn file: one or two characters.
DupChars == {"a", "A", "b", " "}
DupNames == {<<c>> : c \in DupChars} \cup {<<c, d>> : c \in DupChars, d \in DupChars}

\* The names Pizza Hut, Pizza Hut Branch 2, KFC.
PizzaHut == <<"P", "i", "z", "z", "a", " ", "H", "u", "t">>
PizzaNames ==
    <<PizzaHut, PizzaHut \o <<" ", "B", "r", "a", "n", "c", "h", " ", "2">>,
      <<"K", "F", "C">>>>

\* toLowerCase of one character.
LowerChar(c) ==
    CASE c = "A" -> "a" [] c = "B" -> "b" [] c = "C" -> "c" [] c = "F" -> "f"
      [] c = "H" -> "h" [] c = "K" -> "k" [] c = "P" -> "p" [] c = "G" -> "g"
      [] c = "J" -> "j" [] OTHER -> c

ToLowerCase(s) == [i \in 1..Len(s) |-> LowerChar(s[i])]

\* String.prototype.includes.
Includes(hay, needle) ==
    \E i \in 0..(Len(hay) - Len(needle)) : SubSeq(hay, i + 1, i + Len(needle)) = needle

normalizeName(name) == Trim(ToLowerCase(name))

isDuplicate(name1, name2) ==
    LET norm1 == normalizeName(name1)
        norm2 == normalizeName(name2)
    IN  IF norm1 = norm2 THEN TRUE
        ELSE IF Len(norm1) < Len(norm2) THEN Includes(norm2, norm1)
        ELSE IF Len(norm2) < Len(norm1) THEN Includes(norm1, norm2)
        ELSE FALSE

\* One pass of the for loop over j: every entry not yet processed that is a
\* duplicate of an entry of the group, as grown so far, is pushed to it.
RECURSIVE ScanEntries(_, _, _, _)
ScanEntries(names, group, processed, j) ==
    IF j > Len(names) THEN group
    ELSE IF j \in processed \/ \E k \in 1..Len(group) : group[k] = j
         THEN ScanEntries(names, group, processed, j + 1)
    ELSE IF \E k \in 1..Len(group) : isDuplicate(names[group[k]], names[j])
         THEN ScanEntries(names, Append(group, j), processed, j + 1)
    ELSE ScanEntries(names, group, processed, j + 1)

\* The loop while (foundNew): passes until one adds nothing.
RECURSIVE GrowGroup(_, _, _)
GrowGroup(names, group, processed) ==
    LET grown == ScanEntries(names, group, processed, 1)
    IN  IF grown = group THEN group ELSE GrowGroup(names, grown, processed)

\* The outer loop from entry i on; a group of one entry is not kept.
RECURSIVE GroupsFrom(_, _, _, _)
GroupsFrom(names, i, processed, groups) ==
    IF i > Len(names) THEN groups
    ELSE IF i \in processed THEN GroupsFrom(names, i + 1, processed, groups)
    ELSE LET group == GrowGroup(names, <<i>>, processed)
         IN  GroupsFrom(names, i + 1,
                        processed \cup {group[k] : k \in 1..Len(group)},
                        IF Len(group) > 1 THEN Append(groups, group) ELSE groups)

\* The groups, each the list of the positions of its entries in entries.
findDuplicateGroups(names) == GroupsFrom(names, 1, {}, <<>>)

\* The reduce that keeps the last entry of the group met.
KeepLastEntry(names, group) == group[Len(group)]

\* group.reduce: the current entry replaces the shortest so far when its
\* name is strictly shorter.
RECURSIVE ShortestFrom(_, _, _, _)
ShortestFrom(names, group, k, shortest) ==
    IF k > Len(group) THEN shortest
    ELSE ShortestFrom(names, group, k + 1,
                      IF Len(names[group[k]]) < Len(names[shortest]) THEN group[k]
                      ELSE shortest)

keepShortestEntry(names, group) == ShortestFrom(names, group, 2, group[1])

\* The names of the named entries collectAllEntries has gathered.
InitDedup ==
    /\ rows = [r \in 1..NumDefaultTiers |-> NewRow(r - 1)]
    /\ pool = <<>>
    /\ target_item_index = JsUndef
    /\ dragged_image = 0
    /\ old_item_index = JsUndef
    /\ dragged_cls = {}
    /\ marker_attached = FALSE
    /\ orphan_markers = 0
    /\ unsaved_changes = FALSE
    /\ created = 0
    /\ drag = "none"
    /\ over = NoTarget
    /\ pre_drop = NoDrop
    /\ dragged_root = "document"
    /\ \E names \in Lists(DupNames, MaxEntries) \cup {PizzaNames} :
          io = [pc |-> "entries", names |-> names, groups |-> <<>>, kept |-> <<>>]

\* main: duplicateGroups = findDuplicateGroups(allEntries).
FindGroups ==
    /\ io.pc = "entries"
    /\ io' = [io EXCEPT !.pc = "grouped", !.groups = findDuplicateGroups(io.names)]
    /\ UNCHANGED <<rows, pool, target_item_index, dragged_image, old_item_index,
                   dragged_cls, marker_attached, orphan_markers, unsaved_changes,
                   created, drag, over, pre_drop, dragged_root>>

\* keepShortestEntry of every group.
KeepShortest ==
    /\ io.pc = "grouped"
    /\ io' = [io EXCEPT !.pc = "kept",
                        !.kept = [g \in 1..Len(io.groups) |->
                                     keepShortestEntry(io.names, io.groups[g])]]
    /\ UNCHANGED <<rows, pool, target_item_index, dragged_image, old_item_index,
                   dragged_cls, marker_attached, orphan_markers, unsaved_changes,
                   created, drag, over, pre_drop, dragged_root>>

NextDedup ==
    \/ FindGroups
    \/ KeepShortest

SpecDedup == InitDedup /\ [][NextDedup]_vars

\* ---- main of the duplicate-removal utility ----

\* The names of the entries of the file main works on.
UtilNames == {<<"a">>, <<"a", "b">>, <<"b">>}

\* main up to its first question: the file loaded, its entries collected,
\* the groups found; without a group main returns.  file is the content of
\* the tierlist file on disk, backup that of the backup copy.
InitUtil ==
    /\ rows = [r \in 1..NumDefaultTiers |-> NewRow(r - 1)]
    /\ pool = <<>>
    /\ target_item_index = JsUndef
    /\ dragged_image = 0
    /\ old_item_index = JsUndef
    /\ dragged_cls = {}
    /\ marker_attached = FALSE
    /\ orphan_markers = 0
    /\ unsaved_changes = FALSE
    /\ created = 0
    /\ drag = "none"
    /\ over = NoTarget
    /\ pre_drop = NoDrop
    /\ dragged_root = "document"
    /\ \E names \in Lists(UtilNames, MaxEntries) :
          io = [pc |-> IF findDuplicateGroups(names) = <<>> THEN "returned"
                       ELSE "ask_skip",
                outcome |-> IF findDuplicateGroups(names) = <<>> THEN "no_duplicates"
                            ELSE "running",
                names |-> names,
                groups |-> findDuplicateGroups(names),
                selected |-> {},
                file |-> "original",
                backup |-> "none",
                continued |-> FALSE]

\* requestGroupsToSkip answered with the groups skipped: without a group
\* left main returns.
AnswerSkip(skipped) ==
    /\ io.pc = "ask_skip"
    /\ skipped \subseteq 1..Len(io.groups)
    /\ io' = [io EXCEPT !.selected = (1..Len(io.groups)) \ skipped,
                        !.pc = IF (1..Len(io.groups)) \ skipped = {} THEN "returned"
                               ELSE "ask_approval",
                        !.outcome = IF (1..Len(io.groups)) \ skipped = {}
                                    THEN "all_skipped" ELSE @]
    /\ UNCHANGED <<rows, pool, target_item_index, dragged_image, old_item_index,
                   dragged_cls, marker_attached, orphan_markers, unsaved_changes,
                   created, drag, over, pre_drop, dragged_root>>

\* An approval prompt that goes on to the write, whatever the answer.
AnswerIgnored(approved) ==
    /\ io.pc = "ask_approval"
    /\ io' = [io EXCEPT !.pc = "save",
                        !.outcome = IF approved THEN @ ELSE "declined"]
    /\ UNCHANGED <<rows, pool, target_item_index, dragged_image, old_item_index,
                   dragged_cls, marker_attached, orphan_markers, unsaved_changes,
                   created, drag, over, pre_drop, dragged_root>>

\* requestApproval answered: y or yes goes on to the backup, anything else
\* returns.
AnswerApproval(approved) ==
    /\ io.pc = "ask_approval"
    /\ io' = [io EXCEPT !.pc = IF approved THEN "backup" ELSE "returned",
                        !.outcome = IF approved THEN @ ELSE "declined"]
    /\ UNCHANGED <<rows, pool, target_item_index, dragged_image, old_item_index,
                   dragged_cls, marker_attached, orphan_markers, unsaved_changes,
                   created, drag, over, pre_drop, dragged_root>>

\* A backup step that goes on to the write without a copy.
BackupSkipped(copied) ==
    /\ io.pc = "backup"
    /\ io' = [io EXCEPT !.pc = "save"]
    /\ UNCHANGED <<rows, pool, target_item_index, dragged_image, old_item_index,
                   dragged_cls, marker_attached, orphan_markers, unsaved_changes,
                   created, drag, over, pre_drop, dragged_root>>

\* createBackup: fs.copyFileSync makes the copy, or throws and main asks
\* whether to continue without backup.
createBackup(copied) ==
    /\ io.pc = "backup"
    /\ io' = [io EXCEPT !.pc = IF copied THEN "save" ELSE "ask_continue",
                        !.backup = IF copied THEN "original" ELSE @]
    /\ UNCHANGED <<rows, pool, target_item_index, dragged_image, old_item_index,
                   dragged_cls, marker_attached, orphan_markers, unsaved_changes,
                   created, drag, over, pre_drop, dragged_root>>

\* Continue without backup? answered: y or yes goes on to the write,
\* anything else returns.
AnswerContinue(continue) ==
    /\ io.pc = "ask_continue"
    /\ io' = [io EXCEPT !.pc = IF continue THEN "save" ELSE "returned",
                        !.continued = continue,
                        !.outcome = IF continue THEN @ ELSE "no_backup"]
    /\ UNCHANGED <<rows, pool, target_item_index, dragged_image, old_item_index,
                   dragged_cls, marker_attached, orphan_markers, unsaved_changes,
                   created, drag, over, pre_drop, dragged_root>>

\* saveJsonFile: fs.createWriteStream opens the file for writing, which
\* empties it, or fails to open it (the error event rejects, main reports
\* the error and exits with 1).
OpenWriteStream(opened) ==
    /\ io.pc = "save"
    /\ io' = [io EXCEPT !.pc = IF opened THEN "writing" ELSE "exited",
                        !.file = IF opened THEN "empty" ELSE @,
                        !.outcome = IF opened THEN @ ELSE "save_failed"]
    /\ UNCHANGED <<rows, pool, target_item_index, dragged_image, old_item_index,
                   dragged_cls, marker_attached, orphan_markers, unsaved_changes,
                   created, drag, over, pre_drop, dragged_root>>

\* The stream writes the text and finishes, or an error event comes with
\* none or a part of the text written.
WriteStreamEnds(written) ==
    /\ io.pc = "writing"
    /\ written \in {"new", "partial", "empty"}
    /\ io' = [io EXCEPT !.pc = IF written = "new" THEN "returned" ELSE "exited",
                        !.file = written,
                        !.outcome = IF written = "new" THEN "saved" ELSE "save_failed"]
    /\ UNCHANGED <<rows, pool, target_item_index, dragged_image, old_item_index,
                   dragged_cls, marker_attached, orphan_markers, unsaved_changes,
                   created, drag, over, pre_drop, dragged_root>>

NextUtil ==
    \/ \E skipped \in SUBSET (1..MaxEntries) : AnswerSkip(skipped)
    \/ \E approved \in BOOLEAN : AnswerApproval(approved)
    \/ \E copied \in BOOLEAN : createBackup(copied)
    \/ \E continue \in BOOLEAN : AnswerContinue(continue)
    \/ \E opened \in BOOLEAN : OpenWriteStream(opened)
    \/ \E written \in {"new", "partial", "empty"} : WriteStreamEnds(written)

SpecUtil == InitUtil /\ [][NextUtil]_vars

\* ---- downloadAndConvertImage of the add-restaurant utility ----

\* The texts image/webp, image/jpeg, image/png, image/gif.
ImageWebp == <<"i", "m", "a", "g", "e", "/", "w", "e", "b", "p">>
ImageJpeg == <<"i", "m", "a", "g", "e", "/", "j", "p", "e", "g">>
ImagePng == <<"i", "m", "a", "g", "e", "/", "p", "n", "g">>
ImageGif == <<"i", "m", "a", "g", "e", "/", "g", "i", "f">>

\* What response.headers['content-type'] gives: undefined without the
\* header, else its text.
ContentTypes ==
    {[given |-> FALSE, str |-> <<>>]} \cup
    {[given |-> TRUE, str |-> t] : t \in
        {ImageWebp, ImageJpeg, ImagePng, ImageGif,
         <<"i", "m", "a", "g", "e", "/", "j", "p", "g">>,
         <<"i", "m", "a", "g", "e", "/", "s", "v", "g", "+", "x", "m", "l">>,
         <<"a", "p", "p", "l", "i", "c", "a", "t", "i", "o", "n", "/", "o", "c", "t", "e", "t", "-", "s", "t", "r", "e", "a", "m">>,
         <<"t", "e", "x", "t", "/", "h", "t", "m", "l">>}}

\* The image URLs the user enters.
ImageUrls ==
    {<<"h", "t", "t", "p", ":", "/", "/", "h", "/", "a", ".", "w", "e", "b", "p">>,
     <<"h", "t", "t", "p", ":", "/", "/", "h", "/", "a", ".", "j", "p", "g">>,
     <<"h", "t", "t", "p", ":", "/", "/", "h", "/", "a", ".", "j", "p", "e", "g">>,
     <<"h", "t", "t", "p", ":", "/", "/", "h", "/", "a", ".", "g", "i", "f">>,
     <<"h", "t", "t", "p", ":", "/", "/", "h", "/", "a", ".", "p", "n", "g">>,
     <<"h", "t", "t", "p", ":", "/", "/", "h", "/", "a">>,
     <<"h", "t", "t", "p", ":", "/", "/", "h", "/", "a", ".", "J", "P", "G">>,
     <<"h", "t", "t", "p", ":", "/", "/", "h", "/", "a", ".", "b", "m", "p">>}

\* The status codes of the response.
StatusCodes == {200, 404}

\* The MIME type downloadAndConvertImage puts in the data URI: the content
\* type, image/png when the header is missing, is searched for webp, jpeg or
\* jpg, png, gif; when none is in it the lower-cased URL is searched for
\* .webp, .jpg or .jpeg, .gif; else image/png.
MimeType(header, imageUrl) ==
    LET contentType == IF header.given /\ header.str # <<>> THEN header.str ELSE ImagePng
        urlLower == ToLowerCase(imageUrl)
    IN  IF Includes(contentType, <<"w", "e", "b", "p">>) THEN ImageWebp
        ELSE IF \/ Includes(contentType, <<"j", "p", "e", "g">>)
                \/ Includes(contentType, <<"j", "p", "g">>) THEN ImageJpeg
        ELSE IF Includes(contentType, <<"p", "n", "g">>) THEN ImagePng
        ELSE IF Includes(contentType, <<"g", "i", "f">>) THEN ImageGif
        ELSE IF Includes(urlLower, <<".", "w", "e", "b", "p">>) THEN ImageWebp
        ELSE IF \/ Includes(urlLower, <<".", "j", "p", "g">>)
                \/ Includes(urlLower, <<".", "j", "p", "e", "g">>) THEN ImageJpeg
        ELSE IF Includes(urlLower, <<".", "g", "i", "f">>) THEN ImageGif
        ELSE ImagePng

\* The request made, the response not yet there.
InitMime ==
    /\ rows = [r \in 1..NumDefaultTiers |-> NewRow(r - 1)]
    /\ pool = <<>>
    /\ target_item_index = JsUndef
    /\ dragged_image = 0
    /\ old_item_index = JsUndef
    /\ dragged_cls = {}
    /\ marker_attached = FALSE
    /\ orphan_markers = 0
    /\ unsaved_changes = FALSE
    /\ created = 0
    /\ drag = "none"
    /\ over = NoTarget
    /\ pre_drop = NoDrop
    /\ dragged_root = "document"
    /\ \E imageUrl \in ImageUrls :
          io = [pc |-> "request", url |-> imageUrl,
                header |-> [given |-> FALSE, str |-> <<>>], mime |-> <<>>]

\* The response callback: a status other than 200 rejects, else the MIME
\* type is worked out.
Response(statusCode, header) ==
    /\ io.pc = "request"
    /\ io' = [io EXCEPT !.pc = IF statusCode = 200 THEN "typed" ELSE "rejected",
                        !.header = header,
                        !.mime = IF statusCode = 200 THEN MimeType(header, io.url) ELSE @]
    /\ UNCHANGED <<rows, pool, target_item_index, dragged_image, old_item_index,
                   dragged_cls, marker_attached, orphan_markers, unsaved_changes,
                   created, drag, over, pre_drop, dragged_root>>

NextMime == \E statusCode \in StatusCodes, header \in ContentTypes : Response(statusCode, header)

SpecMime == InitMime /\ [][NextMime]_vars

\* ---- the colour of a row in the export ----

DigitChars == {"0", "1", "2", "3", "4", "5", "6", "7", "8", "9"}

DigitChar(n) ==
    CASE n = 0 -> "0" [] n = 1 -> "1" [] n = 2 -> "2" [] n = 3 -> "3" [] n = 4 -> "4"
      [] n = 5 -> "5" [] n = 6 -> "6" [] n = 7 -> "7" [] n = 8 -> "8" [] n = 9 -> "9"

DigitValue(c) == CHOOSE n \in 0..9 : DigitChar(n) = c

\* The decimal text of a number.
RECURSIVE ToDecimal(_)
ToDecimal(n) ==
    IF n < 10 THEN <<DigitChar(n)>> ELSE Append(ToDecimal(n \div 10), DigitChar(n % 10))

\* What style.backgroundColor reads for a colour in the rgb form.
RgbText(r, g, b) ==
    <<"r", "g", "b", "(">> \o ToDecimal(r) \o <<",", " ">> \o ToDecimal(g)
        \o <<",", " ">> \o ToDecimal(b) \o <<")">>

\* The channel values drawn.
Channels == {0, 9, 16, 102, 255}

\* What style.backgroundColor reads: the rgb form, nothing, a colour
\* keyword, the rgba form, the lab and color forms.
Backgrounds ==
    {RgbText(r, g, b) : r \in Channels, g \in Channels, b \in Channels} \cup
    {<<>>,
     <<"r", "e", "d">>,
     <<"r", "g", "b", "a", "(", "2", "5", "5", ",", " ", "1", "0", "2", ",", " ", "1", "0", "2", ",", " ", "0", ".", "5", ")">>,
     <<"l", "a", "b", "(", "5", "0", " ", "4", "0", " ", "5", "9", ")">>,
     <<"c", "o", "l", "o", "r", "(", "s", "r", "g", "b", " ", "0", ".", "5", " ", "0", ".", "2", " ", "0", ".", "1", ")">>}

\* replace(/[^\d,]/g, ''): the digits and the commas of the text.
DigitsAndCommas(s) == SelectSeq(s, LAMBDA c : c \in DigitChars \cup {","})

\* split(','): the pieces between the commas.
RECURSIVE Split(_)
Split(s) ==
    IF \A i \in 1..Len(s) : s[i] # "," THEN <<s>>
    ELSE LET i == CHOOSE k \in 1..Len(s) : s[k] = "," /\ \A m \in 1..(k - 1) : s[m] # ","
         IN  <<SubSeq(s, 1, i - 1)>> \o Split(SubSeq(s, i + 1, Len(s)))

\* The number a shift makes of a text of digits: 0 for the empty text.
RECURSIVE ToNumber(_)
ToNumber(s) ==
    IF s = <<>> THEN 0 ELSE 10 * ToNumber(SubSeq(s, 1, Len(s) - 1)) + DigitValue(s[Len(s)])

\* The number a shift makes of piece k of the split: 0 for undefined.
ChannelValue(parts, k) == IF k <= Len(parts) THEN ToNumber(parts[k]) ELSE 0

\* color_hex of save_tierlist for a header of the given background.
color_hex(backgroundColor) ==
    LET parts == Split(DigitsAndCommas(backgroundColor))
    IN  rgb_to_hex(ChannelValue(parts, 1), ChannelValue(parts, 2), ChannelValue(parts, 3))

\* A row whose header has some background, before the export.
InitHex ==
    /\ rows = [r \in 1..NumDefaultTiers |-> NewRow(r - 1)]
    /\ pool = <<>>
    /\ target_item_index = JsUndef
    /\ dragged_image = 0
    /\ old_item_index = JsUndef
    /\ dragged_cls = {}
    /\ marker_attached = FALSE
    /\ orphan_markers = 0
    /\ unsaved_changes = FALSE
    /\ created = 0
    /\ drag = "none"
    /\ over = NoTarget
    /\ pre_drop = NoDrop
    /\ dragged_root = "document"
    /\ \E backgroundColor \in Backgrounds :
          io = [pc |-> "header", backgroundColor |-> backgroundColor, color |-> NoColor]

\* save_tierlist works out the colour of the row.
ExportColor ==
    /\ io.pc = "header"
    /\ io' = [io EXCEPT !.pc = "exported", !.color = color_hex(io.backgroundColor)]
    /\ UNCHANGED <<rows, pool, target_item_index, dragged_image, old_item_index,
                   dragged_cls, marker_attached, orphan_markers, unsaved_changes,
                   created, drag, over, pre_drop, dragged_root>>

NextHex == ExportColor

SpecHex == InitHex /\ [][NextHex]_vars

\* ---- removeDuplicatesFromTierlist ----

\* The entries of the file: named objects, a legacy string, an object
\* without name.
DupEntries == {Obj("p", name) : name \in UtilNames} \cup {Str("p"), Obj("p", <<>>)}

\* item && typeof item === 'object' && item.name
IsNamed(item) == item.form = "obj" /\ item.name # <<>>

\* The named entries of a list of a file with their locations, the indices
\* counted from 1.
Located(imgs, type, rowIndex) ==
    LET all == [itemIndex \in 1..Len(imgs) |->
                   [name |-> imgs[itemIndex].name, type |-> type, rowIndex |-> rowIndex,
                    itemIndex |-> itemIndex]]
    IN  SelectSeq(all, LAMBDA e : IsNamed(imgs[e.itemIndex]))

\* collectAllEntries: the named entries of the rows, then of untiered.
collectAllEntries(jsonData) ==
    Flatten([rowIndex \in 1..Len(jsonData.rows) |->
                IF jsonData.rows[rowIndex].has_imgs
                THEN Located(jsonData.rows[rowIndex].imgs, "tier", rowIndex)
                ELSE <<>>])
    \o (IF jsonData.has_untiered THEN Located(jsonData.untiered, "untiered", 0) ELSE <<>>)

\* The names of a list of located entries.
NamesOf(entries) == [i \in 1..Len(entries) |-> entries[i].name]

\* Identifiers of every member of the groups, the kept entry included.
RemoveAllMembers(entries, groups) ==
    {[type |-> entries[i].type, rowIndex |-> entries[i].rowIndex,
      itemIndex |-> entries[i].itemIndex] :
        i \in UNION {{groups[g][k] : k \in 1..Len(groups[g])} : g \in 1..Len(groups)}}

\* entriesToRemove: the identifiers (type, row, index) of the members of
\* the groups other than the entry keepShortestEntry keeps.
entriesToRemove(entries, groups) ==
    {[type |-> entries[i].type, rowIndex |-> entries[i].rowIndex,
      itemIndex |-> entries[i].itemIndex] :
        i \in UNION {{groups[g][k] : k \in 1..Len(groups[g])}
                        \ {keepShortestEntry(NamesOf(entries), groups[g])} :
                     g \in 1..Len(groups)}}

\* The loop from the last index down to the first: the entry at i is
\* spliced out when its identifier is one to remove.
RECURSIVE SpliceBackward(_, _, _, _, _)
SpliceBackward(imgs, i, type, rowIndex, ids) ==
    IF i = 0 THEN imgs
    ELSE SpliceBackward(IF [type |-> type, rowIndex |-> rowIndex, itemIndex |-> i] \in ids
                        THEN SeqRemove(imgs, i) ELSE imgs,
                        i - 1, type, rowIndex, ids)

removeDuplicatesFromTierlist(jsonData, entries, duplicateGroups) ==
    LET ids == entriesToRemove(entries, duplicateGroups)
    IN  [jsonData EXCEPT
            !.rows = [rowIndex \in 1..Len(jsonData.rows) |->
                         IF jsonData.rows[rowIndex].has_imgs
                         THEN [jsonData.rows[rowIndex] EXCEPT
                                  !.imgs = SpliceBackward(@, Len(@), "tier", rowIndex, ids)]
                         ELSE jsonData.rows[rowIndex]],
            !.untiered = IF jsonData.has_untiered
                         THEN SpliceBackward(@, Len(@), "untiered", 0, ids)
                         ELSE @]

\* countEntries
countEntries(jsonData) ==
    Len(Flatten([r \in 1..Len(jsonData.rows) |->
                    IF jsonData.rows[r].has_imgs THEN jsonData.rows[r].imgs ELSE <<>>]))
    + (IF jsonData.has_untiered THEN Len(jsonData.untiered) ELSE 0)

\* main with the file loaded, its entries collected and its groups found.
InitRemove ==
    /\ rows = [r \in 1..NumDefaultTiers |-> NewRow(r - 1)]
    /\ pool = <<>>
    /\ target_item_index = JsUndef
    /\ dragged_image = 0
    /\ old_item_index = JsUndef
    /\ dragged_cls = {}
    /\ marker_attached = FALSE
    /\ orphan_markers = 0
    /\ unsaved_changes = FALSE
    /\ created = 0
    /\ drag = "none"
    /\ over = NoTarget
    /\ pre_drop = NoDrop
    /\ dragged_root = "document"
    /\ \E es \in Lists(DupEntries, MaxDupEntries) :
          \E place \in Places(Len(es), 2) :
             LET jsonData == MakeFile(<<"T">>, <<[name |-> <<"S">>, color |-> NoColor]>>,
                                      es, place, TRUE)
                 entries == collectAllEntries(jsonData)
             IN  io = [pc |-> "found", jsonData |-> jsonData, entries |-> entries,
                       groups |-> findDuplicateGroups(NamesOf(entries)),
                       selected |-> <<>>, cleaned |-> NoFile]

\* The groups left once the skipped ones are taken out, in their order.
SelectedGroups(groups, skipped) ==
    LET idx == SelectSeq([g \in 1..Len(groups) |-> g], LAMBDA g : g \notin skipped)
    IN  [k \in 1..Len(idx) |-> groups[idx[k]]]

\* main: the answer to requestGroupsToSkip; with no group found, or none
\* left, main returns.
ChooseGroups(skipped) ==
    /\ io.pc = "found"
    /\ skipped \subseteq 1..Len(io.groups)
    /\ io' = [io EXCEPT !.selected = SelectedGroups(io.groups, skipped),
                        !.pc = IF SelectedGroups(io.groups, skipped) = <<>>
                               THEN "returned" ELSE "selected"]
    /\ UNCHANGED <<rows, pool, target_item_index, dragged_image, old_item_index,
                   dragged_cls, marker_attached, orphan_markers, unsaved_changes,
                   created, drag, over, pre_drop, dragged_root>>

\* main: cleanedData = removeDuplicatesFromTierlist(jsonData, selectedGroups).
RemoveDuplicates ==
    /\ io.pc = "selected"
    /\ io' = [io EXCEPT !.pc = "cleaned",
                        !.cleaned = removeDuplicatesFromTierlist(io.jsonData, io.entries,
                                                                 io.selected)]
    /\ UNCHANGED <<rows, pool, target_item_index, dragged_image, old_item_index,
                   dragged_cls, marker_attached, orphan_markers, unsaved_changes,
                   created, drag, over, pre_drop, dragged_root>>

NextRemove ==
    \/ \E skipped \in SUBSET (1..(MaxDupEntries \div 2)) : ChooseGroups(skipped)
    \/ RemoveDuplicates

SpecRemove == InitRemove /\ [][NextRemove]_vars

\* ============================================================ properties
\* The item sequence of container c before the last drop.
PreItemsOf(c) ==
    IF c = 0 THEN [i \in 1..Len(pre_drop.pool) |-> pre_drop.pool[i].id]
    ELSE pre_drop.rows[c].items

Without(s, x) == SelectSeq(s, LAMBDA e : e # x)

\* Number of places item x takes in the containers of the document.
Occ(x) == Len(SelectSeq(PoolIds \o Flatten([r \in 1..Len(rows) |-> rows[r].items]),
                        LAMBDA e : e = x))

\* The items that are in some container.
DocItems == {x \in Items : Loc(x) >= 0}

\* A drop handler of a row or of the pool has just moved the grabbed item.
CommittedDrop == pre_drop.done /\ pre_drop.dst >= 0

\* An element of an item other than its span.item: image, label, container.
ItemParts(x) == {Elem(k, x, 0) : k \in {"img", "label", "container"}}

\* Some insertion-marker element is attached to the document body.
MarkerShown == marker_attached \/ orphan_markers > 0

C2_IndexIsPosition ==
    /\ (/\ drag = "dragging"
        /\ over.k \in {"img", "label", "container"}
        /\ Loc(over.x) > 0)
       => target_item_index = JsNum(Pos(over.x) - 1)
    /\ (/\ drag \in {"pressed", "dragging"}
        /\ Grabbed
        /\ Loc(dragged_image) > 0)
       => old_item_index = JsNum(Pos(dragged_image) - 1)

\* ---- C3: a committed drop decrements the target index by one exactly when
\* the grabbed item comes from the destination container (row or pool) and
\* its recorded source index is smaller than the target index (both of them
\* numbers).
C3_DecrementIffSameContainer ==
    (/\ CommittedDrop
     /\ pre_drop.old.tag = "num"
     /\ pre_drop.tidx.tag = "num")
    =>  target_item_index =
            IF pre_drop.src = pre_drop.dst /\ JsLess(pre_drop.old, pre_drop.tidx)
            THEN JsMinusOne(pre_drop.tidx)
            ELSE pre_drop.tidx

\* ---- C4: a drop of a grabbed item X on a row that has no items leaves that
\* row holding exactly [X].
C4_EmptyRowPlacement ==
    (/\ CommittedDrop
     /\ pre_drop.dst >= 1
     /\ PreItemsOf(pre_drop.dst) = <<>>)
    => rows[pre_drop.dst].items = <<pre_drop.x>>

C4_Witness ==
    /\ CommittedDrop
    /\ pre_drop.dst >= 1
    /\ pre_drop.src >= 1
    /\ pre_drop.t.k = "header"
    /\ PreItemsOf(pre_drop.dst) = <<>>
    /\ rows[pre_drop.dst].items = <<pre_drop.x>>

\* ---- C5: a committed drop keeps the number of items in source plus
\* destination, and leaves the moved item in exactly one container, the
\* destination.
C5_MovePreservesCount ==
    CommittedDrop =>
        /\ IF pre_drop.src = pre_drop.dst
           THEN Len(ItemsOf(pre_drop.dst)) = Len(PreItemsOf(pre_drop.dst))
           ELSE Len(ItemsOf(pre_drop.src)) + Len(ItemsOf(pre_drop.dst))
                    = Len(PreItemsOf(pre_drop.src)) + Len(PreItemsOf(pre_drop.dst))
        /\ Occ(pre_drop.x) = 1
        /\ Loc(pre_drop.x) = pre_drop.dst

C5_Witness ==
    /\ CommittedDrop
    /\ pre_drop.src >= 1
    /\ pre_drop.dst = 0
    /\ Len(PreItemsOf(0)) >= 1
    /\ Loc(pre_drop.x) = 0

\* ---- C6: every item is in exactly one container in every reachable state:
\* none is in two, and the set of items in the containers changes only by an
\* image import (one new item) or a trash drop (the grabbed item).
C6_OneContainerPerItem ==
    /\ \A x \in Items : Occ(x) <= 1
    /\ [][IF rows' = rows /\ pool' = pool
          THEN TRUE
          ELSE /\ \A x \in Items : Occ(x)' <= 1
               /\ \/ DocItems' = DocItems
                  \/ ImportImage /\ DocItems' = DocItems \cup {created + 1}
                  \/ TrashDrop /\ DocItems' = DocItems \ {dragged_image}]_vars

C6_Witness ==
    /\ Len(rows) = 1
    /\ Len(pool) = MaxImports
    /\ \E i \in 1..Len(pool) : pool[i].wrapped
    /\ \E i \in 1..Len(pool) : ~pool[i].wrapped
    /\ \A x \in 1..MaxImports : Occ(x) = 1

\* ---- C7: a drop whose target is no item (the row, its item area, its
\* header or header label, the pool surface) puts the grabbed item after the
\* last item of that container.
C7_SurfaceDropAppends ==
    (/\ CommittedDrop
     /\ pre_drop.t.k \in RowKinds \cup {"images"})
    => ItemsOf(pre_drop.dst)
           = Append(Without(PreItemsOf(pre_drop.dst), pre_drop.x), pre_drop.x)

C7_Witness ==
    /\ CommittedDrop
    /\ pre_drop.t.k = "hlabel"
    /\ pre_drop.tidx = JsNull
    /\ Len(PreItemsOf(pre_drop.dst)) >= 1
    /\ pre_drop.src # pre_drop.dst
    /\ ItemsOf(pre_drop.dst) = Append(PreItemsOf(pre_drop.dst), pre_drop.x)

\* ---- C8: mousedown, dragenter, dragleave, dragover and the end of a drag
\* without a drop leave every row's items, the pool, the row list and the
\* dirty flag unchanged.
C8_NoCommitNoChange ==
    [][IF rows' = rows /\ pool' = pool /\ unsaved_changes' = unsaved_changes
       THEN TRUE
       ELSE ~(\/ \E x \in Items : MouseDown(x)
              \/ \E t \in Targets : DragEnter(t)
              \/ DragLeave
              \/ DragOver
              \/ MouseUp
              \/ DragEnd /\ drag = "dragging")]_vars

C8_Witness ==
    /\ drag = "dragging"
    /\ over.k = "img"
    /\ marker_attached
    /\ target_item_index.tag = "num"
    /\ Loc(over.x) >= 1
    /\ ~unsaved_changes

\* ---- C9 (as claimed): after a dragleave the insertion marker is not
\* attached to the document view.
C9_LeaveClearsMarker == [][DragLeave => ~MarkerShown']_vars

\* ---- C9 (amended): a dragleave leaves the insertion marker as it is, and
\* an attached marker is taken off the document only by end_drag (mouseup,
\* dragend).
C9_LeaveKeepsMarker ==
    [][/\ DragLeave => (MarkerShown' <=> MarkerShown)
       /\ (MarkerShown /\ ~MarkerShown') => (MouseUp \/ DragEnd)]_vars

C9_Witness ==
    /\ drag = "dragging"
    /\ over = NoTarget
    /\ marker_attached

\* ---- C10: once a drag is over, whichever way it ended, no item is
\* grabbed, no item carries the 'dragged' mark and no insertion marker is
\* attached.
C10_DragEndsClean ==
    drag = "none" =>
        /\ dragged_image = 0
        /\ dragged_cls = {}
        /\ ~MarkerShown

\* Number of insertion-marker elements attached to the document body.
MarkersAttached == orphan_markers + (IF marker_attached THEN 1 ELSE 0)

\* ---- C11: in every reachable state at most one insertion-marker element
\* is attached to the document, and every attached marker is the element
\* end_drag removes (placement_marker_div), also after a row was added or a
\* tierlist import created rows while a marker was attached.
C11_OneMarker ==
    /\ MarkersAttached <= 1
    /\ orphan_markers = 0

\* ---- C12: a drop on a row, on the pool or on the trash while nothing is
\* grabbed (dragged_image is null) changes no container and not the dirty
\* flag, and raises no error.
C12_NullDropNoOp ==
    [][IF dragged_image # 0 THEN TRUE
       ELSE ((\E t \in Targets : Drop(t)) \/ TrashDrop)
            => /\ rows' = rows
               /\ pool' = pool
               /\ unsaved_changes' = unsaved_changes
               /\ ~pre_drop'.err]_vars

C12_Witness ==
    /\ drag = "fdropped"
    /\ dragged_image = 0
    /\ over.k = "img"
    /\ Loc(over.x) >= 1
    /\ ~unsaved_changes
    /\ ~pre_drop.err

\* ---- C13: a drop while the grabbed item is in no container of the
\* document (an import callback ran hard_reset_list and load_tierlist after
\* the mousedown) is a no-op: it raises no error and it leaves the rows and
\* the pool, which hold the imported items, as they are.
C13_StaleDropNoOp ==
    [][IF dragged_image = 0 \/ Loc(dragged_image) >= 0 THEN TRUE
       ELSE ((\E t \in Targets : Drop(t)) \/ TrashDrop)
            => /\ rows' = rows
               /\ pool' = pool
               /\ ~pre_drop'.err]_vars

\* The trash drop handler has just removed the grabbed item.
TrashedDrop == pre_drop.done /\ pre_drop.dst = -1

\* The items of all containers, the pool first, then row by row.
AllItems(rs, pl) ==
    [i \in 1..Len(pl) |-> pl[i].id] \o Flatten([r \in 1..Len(rs) |-> rs[r].items])

C15_MutationsSetDirty ==
    [][IF unsaved_changes' THEN TRUE
       ELSE ~(\/ Movable /\ \E t \in Targets : Drop(t)
              \/ Grabbed /\ TrashDrop
              \/ \E idx \in 0..MaxRows : AddRow(idx)
              \/ \E r \in 1..MaxRows : RemoveRow(r)
              \/ \E r \in 1..MaxRows : \E picked \in BOOLEAN : change_label(r, picked)
              \/ SoftReset
              \/ ImportImage)]_vars

\* ---- C16: the dirty flag goes from true to false only when an export
\* (save) or a tierlist import (load_tierlist) completes; an export whose
\* prompt is cancelled leaves it as it is.
C16_OnlySaveAndLoadClear ==
    [][IF unsaved_changes' = unsaved_changes THEN TRUE
       ELSE /\ ~ExportCancelled
            /\ unsaved_changes => (save \/ \E f \in ImportFiles : ImportTierlist(f))]_vars

C16_Witness ==
    /\ ~unsaved_changes
    /\ \E i \in 1..Len(pool) : pool[i].wrapped
    /\ \E r \in 1..Len(rows) : rows[r].color = PickedColor /\ rows[r].color # TierColor(r - 1)

\* ---- C17: removing a row that holds N items, two rows or more existing
\* and the removal confirmed, appends those N items to the end of the pool in
\* their row order, leaves the earlier items of the pool and the items of the
\* other rows as they are, and takes the number of rows down by one.
C17_RemoveRowKeepsItems ==
    [][IF rows' = rows THEN TRUE
       ELSE \A r \in 1..Len(rows) :
              RemoveRow(r) =>
                /\ Len(rows) >= 2
                /\ Len(rows') = Len(rows) - 1
                /\ PoolIds' = PoolIds \o rows[r].items
                /\ \A i \in 1..Len(pool) : pool'[i] = pool[i]
                /\ \A q \in 1..Len(rows) :
                     q # r => rows'[IF q < r THEN q ELSE q - 1].items = rows[q].items]_vars

C17_Witness ==
    /\ Len(rows) = 1
    /\ rows[1].color = TierColor(1)
    /\ Len(pool) = 2
    /\ PoolIds = <<2, 1>>
    /\ \A i \in 1..Len(pool) : ~pool[i].wrapped

FileEntries(f) == Flatten([i \in 1..Len(f.rows) |-> f.rows[i].imgs]) \o f.untiered

\* A file of the current format whose row names respect MAX_NAME_LEN.
CurrentFormat(f) ==
    /\ \A i \in 1..Len(FileEntries(f)) : FileEntries(f)[i].form = "obj"
    /\ \A i \in 1..Len(f.rows) : Len(f.rows[i].name) <= MAX_NAME_LEN

\* ---- C19: round trip: a Document whose items are all of the current
\* format, exported with save_tierlist and imported again (hard reset, then
\* load_tierlist), comes back with the same title, the same rows with the same
\* names and colours, the same items (src, name) in every row and the same
\* pool.
C19_RoundTrip ==
    (io.pc = "reloaded" /\ CurrentFormat(io.file)) => io.doc2 = io.doc

\* ---- C20: legacy normalisation: a bare string s loads to the item that
\* the object {src: s, name: ""} loads to, and an export emits object entries
\* only, never a bare string.
C20_LegacyNormalised ==
    /\ \A s \in Srcs : LoadedItems(<<Str(s)>>) = LoadedItems(<<Obj(s, <<>>)>>)
    /\ io.pc \in {"saved", "reloaded"}
         => \A i \in 1..Len(FileEntries(io.out)) : FileEntries(io.out)[i].form = "obj"

\* The sources of a list of items or of item entries, in their order.
SrcsOf(list) == [j \in 1..Len(list) |-> list[j].src]

\* ---- C21: the exported JSON has no untiered key when the pool is empty,
\* and has an untiered array that lists the items of the pool, in the order
\* of the pool, when it is not.
C21_UntieredKey ==
    io.pc \in {"saved", "reloaded"} =>
        /\ io.out.has_untiered <=> Len(io.doc.pool) > 0
        /\ io.out.has_untiered => SrcsOf(io.out.untiered) = SrcsOf(io.doc.pool)

\* ---- C22: importing the file {"title": "x"}, which has no rows, fails and
\* leaves the rows and the pool of the loaded Document exactly as they were.
C22_TitleOnlyImportFails ==
    [][IF rows' = rows /\ pool' = pool THEN TRUE ELSE ~ImportTierlist(TitleOnlyFile)]_vars

\* The file is malformed: its root is not an object, its rows is not an
\* array, its untiered is there and is not an array, or a row has no imgs.
Malformed(f) ==
    \/ f.shape # "ok"
    \/ \E i \in 1..Len(f.rows) : ~f.rows[i].has_imgs

\* ---- C23: a malformed file (root not an object, rows not an array,
\* untiered present and not an array, a row whose imgs is missing) is rejected
\* with an error, by the import of the page and by loadJsonFile of the
\* utilities.
C23_MalformedRejected ==
    (io.pc = "loaded" /\ Malformed(io.file)) =>
        /\ io.err # "none"
        /\ loadJsonFile(io.file) = "rejected"

C25_RelativePathFetched ==
    (io.pc = "remote" /\ io.url.given /\ io.url.str = RelativePath) => io.fetch # "none"

\* ---- C26: imports are atomic with respect to each other: with a fetch
\* and file reads in flight, a step of the import machinery either runs no
\* load callback and leaves rows and pool as they were, or runs the callback
\* of one import and leaves exactly the content of that import: its rows with
\* their colours and item counts and its pool, every item a new element, none
\* kept from the page before or from another import.
C26_ImportsAtomic ==
    [][IF io' = io THEN TRUE
       ELSE IF io'.tick = io.tick THEN rows' = rows /\ pool' = pool
       ELSE LoadThrows(io'.last) \/
            LET doc == load_tierlist(io'.last)
            IN  /\ Len(rows') = Len(doc.rows)
                /\ \A r \in 1..Len(rows') :
                      /\ Len(rows'[r].items) = Len(doc.rows[r].items)
                      /\ rows'[r].color = doc.rows[r].color
                /\ Len(pool') = Len(doc.pool)
                /\ \A i \in 1..Len(AllItems(rows', pool')) :
                      AllItems(rows', pool')[i] > created]_vars

\* The fetch is still in flight, the callback of a file read has loaded an
\* image meanwhile, and another read is in flight.
C26_Witness ==
    /\ io.pc = "remote"
    /\ io.fetch = "parsing"
    /\ io.tick
    /\ created > 0
    /\ io.reads # {}

\* Two names match when one, lower-cased, contains the other (equal names
\* contain each other).
RawMatch(name1, name2) ==
    \/ Includes(ToLowerCase(name1), ToLowerCase(name2))
    \/ Includes(ToLowerCase(name2), ToLowerCase(name1))

\* Two names match when one, lower-cased and trimmed, contains the other.
NormMatch(name1, name2) ==
    \/ Includes(normalizeName(name1), normalizeName(name2))
    \/ Includes(normalizeName(name2), normalizeName(name1))

\* The entries a chain of pairs of E links to an entry of S.
RECURSIVE Component(_, _)
Component(E, S) ==
    LET T == S \cup {p[2] : p \in {q \in E : q[1] \in S}}
    IN  IF T = S THEN S ELSE Component(E, T)

\* The entries of group g.
GroupSet(g) == {io.groups[g][k] : k \in 1..Len(io.groups[g])}

\* The groups are the chains of E of two entries or more, disjoint, and the
\* entry kept for each is one of its entries of the shortest name; the names
\* Pizza Hut, Pizza Hut Branch 2, KFC give the one group of the first two, of
\* which the first is kept.
GroupedBy(E) ==
    LET n == Len(io.names)
        G == 1..Len(io.groups)
    IN  /\ io.pc \in {"grouped", "kept"} =>
              /\ \A i \in 1..n, j \in 1..n :
                    i # j => ((\E g \in G : {i, j} \subseteq GroupSet(g))
                                 <=> j \in Component(E, {i}))
              /\ \A g \in G, h \in G : g # h => GroupSet(g) \cap GroupSet(h) = {}
              /\ \A g \in G : Len(io.groups[g]) >= 2 /\ Cardinality(GroupSet(g)) = Len(io.groups[g])
              /\ io.names = PizzaNames => io.groups = << <<1, 2>> >>
        /\ io.pc = "kept" =>
              /\ \A g \in G :
                    /\ io.kept[g] \in GroupSet(g)
                    /\ \A k \in GroupSet(g) : Len(io.names[io.kept[g]]) <= Len(io.names[k])
              /\ io.names = PizzaNames => io.kept = <<1>>

\* ---- C27: duplicate grouping: two named entries are in the same group
\* exactly when a chain of entries links them whose names pairwise match
\* case-insensitively, by equality or by one containing the other; the groups
\* are disjoint, each has two entries or more, and the entry kept is one of
\* the shortest name.  Pizza Hut, Pizza Hut Branch 2, KFC: one group of the
\* first two, Pizza Hut kept, KFC in no group.
C27_DuplicateGroups ==
    GroupedBy({p \in (1..Len(io.names)) \X (1..Len(io.names)) :
                  RawMatch(io.names[p[1]], io.names[p[2]])})

\* C27 as the code has it: the names are matched lower-cased and trimmed of
\* the white space around them.
C27_DuplicateGroupsTrimmed ==
    GroupedBy({p \in (1..Len(io.names)) \X (1..Len(io.names)) :
                  NormMatch(io.names[p[1]], io.names[p[2]])})

\* A group of three entries holds two whose names do not match each other,
\* and its entry of the shortest name has been kept.
C27_Witness ==
    /\ io.pc = "kept"
    /\ \E g \in 1..Len(io.groups) :
          /\ Len(io.groups[g]) = 3
          /\ \E i \in GroupSet(g), j \in GroupSet(g) :
                ~isDuplicate(io.names[i], io.names[j])

\* ---- C28: the duplicate-removal utility overwrites the tierlist file
\* only after a backup copy of the original has been made: whenever the
\* file no longer holds its original content, the backup holds it.
C28_BackupBeforeWrite ==
    io.file # "original" => io.backup = "original"

\* C28 as the code has it: the file is overwritten after a backup, or after
\* the backup failed and the user answered y or yes to Continue without
\* backup?.
C28_BackupOrConsentBeforeWrite ==
    io.file # "original" => (io.backup = "original" \/ io.continued)

\* The cleaned file has been written after a backup.
C28_Witness ==
    /\ io.outcome = "saved"
    /\ io.file = "new"
    /\ io.backup = "original"

\* ---- C29: when no duplicate group exists, when the user skips all
\* groups, or when the user declines the approval prompt, the tierlist file
\* is not written and no backup file is created.
C29_DeclinedChangesNothing ==
    io.outcome \in {"no_duplicates", "all_skipped", "declined"} =>
        /\ io.pc = "returned"
        /\ io.file = "original"
        /\ io.backup = "none"

\* The user has declined the approval prompt for a group found.
C29_Witness ==
    /\ io.outcome = "declined"
    /\ io.pc = "returned"
    /\ io.selected # {}

\* ---- C30: the file write of the utilities is all-or-nothing: when
\* saveJsonFile fails, the tierlist file holds the complete original content
\* or the complete new content, and the failure is reported.
C30_WriteAllOrNothing ==
    io.outcome = "save_failed" =>
        /\ io.pc = "exited"
        /\ io.file \in {"original", "new"}

\* The MIME type the extension of the URL stands for: .webp, .jpg or .jpeg,
\* .gif, otherwise png.
ExtensionMime(imageUrl) ==
    IF Includes(ToLowerCase(imageUrl), <<".", "w", "e", "b", "p">>) THEN ImageWebp
    ELSE IF \/ Includes(ToLowerCase(imageUrl), <<".", "j", "p", "g">>)
            \/ Includes(ToLowerCase(imageUrl), <<".", "j", "p", "e", "g">>) THEN ImageJpeg
    ELSE IF Includes(ToLowerCase(imageUrl), <<".", "g", "i", "f">>) THEN ImageGif
    ELSE ImagePng

\* ---- C31: the MIME type of the downloaded image is the one the
\* content-type header of the response names (webp, jpeg, png or gif) when
\* the header is there, and the one of the URL's extension (.webp, .jpg or
\* .jpeg, .gif, otherwise png) when the header is missing.
C31_MimeFromHeaderOrExtension ==
    io.pc = "typed" =>
        /\ (io.header.given /\ io.header.str \in {ImageWebp, ImageJpeg, ImagePng, ImageGif})
               => io.mime = io.header.str
        /\ ~io.header.given => io.mime = ExtensionMime(io.url)

\* The two hexadecimal digits of a channel.
TwoHex(n) == <<n \div 16, n % 16>>

\* ---- C32: every row colour the export writes is # and exactly six
\* hexadecimal digits: for channels r, g, b of 0..255 the two digits of r, of
\* g and of b, and six digits too for a header whose background is empty or
\* is not in the rgb(r, g, b) form.
C32_SixHexDigits ==
    io.pc = "exported" =>
        /\ io.color.kind = "hex"
        /\ Len(io.color.d) = 6
        /\ \A i \in 1..Len(io.color.d) : io.color.d[i] \in 0..15
        /\ \A r \in Channels, g \in Channels, b \in Channels :
              io.backgroundColor = RgbText(r, g, b) =>
                  io.color.d = TwoHex(r) \o TwoHex(g) \o TwoHex(b)

\* The list s with x put immediately before its element t.
PutBefore(s, t, x) ==
    LET k == CHOOSE i \in 1..Len(s) : s[i] = t
    IN  SubSeq(s, 1, k - 1) \o <<x>> \o SubSeq(s, k, Len(s))

\* ---- C33: left-of-target placement: a drop on an item T of a row R,
\* after a dragenter on T, with a grabbed item X other than T - from R on
\* either side of T, from another row or from the pool - leaves X immediately
\* before T in R and the other items of R in their order.
C33_LeftOfTarget ==
    (/\ CommittedDrop
     /\ pre_drop.dst >= 1
     /\ pre_drop.t.k \in {"img", "label", "container"}
     /\ pre_drop.t.x # pre_drop.x)
    => ItemsOf(pre_drop.dst)
           = PutBefore(Without(PreItemsOf(pre_drop.dst), pre_drop.x), pre_drop.t.x, pre_drop.x)

\* ---- C34: in the untiered pool a dragenter on the item at position i
\* (from 0) sets the target index to i, for i = 0 and 1 as for larger i, and a
\* following drop of a grabbed item that comes from a row inserts it
\* immediately before the hovered item.
C34_PoolTargetIndex ==
    /\ (/\ drag = "dragging"
        /\ over.k \in {"img", "label", "container"}
        /\ Loc(over.x) = 0)
       => target_item_index = JsNum(Pos(over.x) - 1)
    /\ (/\ CommittedDrop
        /\ pre_drop.dst = 0
        /\ pre_drop.src >= 1
        /\ pre_drop.t.k \in {"img", "label", "container"})
       => ItemsOf(0) = PutBefore(PreItemsOf(0), pre_drop.t.x, pre_drop.x)

\* The pool entries other than that of item x.
PoolOthers(pl, x) == SelectSeq(pl, LAMBDA e : e.id # x)

RemoveUnasked(r, confirmed) == "removed"

\* The click handler of btn_rm: it returns when fewer than two rows exist,
\* asks for a confirmation when the row holds an img, and calls rm_row when
\* the row is empty or the answer is yes.
btn_rm(r, confirmed) ==
    IF Len(rows) < 2 THEN "ignored"
    ELSE IF rows[r].items = <<>> \/ confirmed THEN "removed" ELSE "declined"

\* The editor as add_row and the load handler leave it, no click made.
InitRows ==
    /\ rows = [r \in 1..NumDefaultTiers |-> NewRow(r - 1)]
    /\ pool = <<>>
    /\ target_item_index = JsUndef
    /\ dragged_image = 0
    /\ old_item_index = JsUndef
    /\ dragged_cls = {}
    /\ marker_attached = FALSE
    /\ orphan_markers = 0
    /\ unsaved_changes = FALSE
    /\ created = 0
    /\ drag = "none"
    /\ over = NoTarget
    /\ pre_drop = NoDrop
    /\ dragged_root = "document"
    /\ io = [pc |-> "rows", click |-> "none"]

\* A click on the '-' button of row r, with the answer the user gives if
\* the confirmation is asked.
RemoveRowClick(r, confirmed) ==
    /\ drag = "none"
    /\ r \in 1..Len(rows)
    /\ io' = [io EXCEPT !.click = btn_rm(r, confirmed)]
    /\ IF btn_rm(r, confirmed) = "removed"
       THEN /\ pool' = pool \o ResetRowItems(r)
            /\ rows' = SeqRemove(rows, r)
       ELSE UNCHANGED <<rows, pool>>
    /\ UNCHANGED <<target_item_index, dragged_image, old_item_index, dragged_cls,
                   marker_attached, orphan_markers, unsaved_changes, created, drag,
                   over, pre_drop, dragged_root>>

NextRows ==
    \/ ImportImage
    \/ \E x \in Items : MouseDown(x)
    \/ MouseUp
    \/ DragStart
    \/ \E t \in Targets : DragEnter(t)
    \/ DragLeave
    \/ DragOver
    \/ \E t \in Targets : Drop(t)
    \/ TrashDrop
    \/ DragEnd
    \/ \E idx \in 0..MaxRows : AddRow(idx)
    \/ \E r \in 1..MaxRows : \E confirmed \in BOOLEAN : RemoveRowClick(r, confirmed)
    \/ SoftReset
    \/ save

SpecRows == InitRows /\ [][NextRows]_vars

\* ---- C36: removeDuplicatesFromTierlist removes exactly the members of the
\* selected groups other than each group's kept entry: one member of each
\* selected group is left, the entry count drops by the sum of (size - 1)
\* over the selected groups, every entry of a skipped group or of no group
\* (legacy strings and unnamed objects included) is left, and the entries
\* left keep their order in every row and in untiered.
\* The positions in io.entries of the members of selected groups that are
\* not the kept entry of their group.
Dropped ==
    {i \in 1..Len(io.entries) :
        \E g \in 1..Len(io.selected) :
           /\ \E k \in 1..Len(io.selected[g]) : io.selected[g][k] = i
           /\ i # keepShortestEntry(NamesOf(io.entries), io.selected[g])}

\* The items of a list of the file whose place is not one of a dropped entry.
Survivors(imgs, type, rowIndex) ==
    LET idx == SelectSeq([i \in 1..Len(imgs) |-> i],
                         LAMBDA i : ~\E d \in Dropped :
                                       /\ io.entries[d].type = type
                                       /\ io.entries[d].rowIndex = rowIndex
                                       /\ io.entries[d].itemIndex = i)
    IN  [k \in 1..Len(idx) |-> imgs[idx[k]]]

C36_ExactRemoval ==
    io.pc = "cleaned" =>
        /\ \A r \in 1..Len(io.jsonData.rows) :
              io.cleaned.rows[r].imgs = Survivors(io.jsonData.rows[r].imgs, "tier", r)
        /\ io.cleaned.untiered = Survivors(io.jsonData.untiered, "untiered", 0)
        /\ Len(io.cleaned.rows) = Len(io.jsonData.rows)
        /\ \A g \in 1..Len(io.selected) :
              Cardinality({k \in 1..Len(io.selected[g]) : io.selected[g][k] \notin Dropped}) = 1
        /\ countEntries(io.jsonData) - countEntries(io.cleaned)
              = Len(Flatten(io.selected)) - Len(io.selected)

\* A file of five entries with a legacy string in a row and two groups, one
\* of them skipped, has been cleaned of one entry.
C36_Witness ==
    /\ io.pc = "cleaned"
    /\ Len(io.groups) = 2
    /\ Len(io.selected) = 1
    /\ \E r \in 1..Len(io.jsonData.rows) :
          \E i \in 1..Len(io.jsonData.rows[r].imgs) : io.jsonData.rows[r].imgs[i].form = "str"
    /\ countEntries(io.cleaned) = 4

\* ---- C37: every entry removed by the deduplication is a duplicate of the
\* entry kept for its group: isDuplicate(removed name, kept name) holds.
C37_RemovedDuplicatesKept ==
    io.pc = "cleaned" =>
        \A g \in 1..Len(io.selected) :
           \A k \in 1..Len(io.selected[g]) :
              io.selected[g][k] \in Dropped =>
                 isDuplicate(io.entries[io.selected[g][k]].name,
                             io.entries[keepShortestEntry(NamesOf(io.entries),
                                                          io.selected[g])].name)

\* ---- C38: the remove-row button does nothing when one row exists, so
\* add-row and remove-row clicks from the default rows on leave at least one
\* row; a remove-row click on a row with items whose confirmation is declined
\* changes neither the rows nor the untiered pool.
C38_RemoveRowGuarded ==
    [][/\ Len(rows) >= 1
       /\ Len(rows') >= 1
       /\ \A r \in 1..Len(rows) :
             /\ drag = "none" /\ Len(rows) = 1 /\ (\E c \in BOOLEAN : RemoveRowClick(r, c))
                  => rows' = rows /\ pool' = pool
             /\ drag = "none" /\ rows[r].items # <<>> /\ RemoveRowClick(r, FALSE)
                  => rows' = rows /\ pool' = pool]_vars

\* Two rows, one of them with an item, after a declined remove-row click.
C38_Witness ==
    /\ io.pc = "rows"
    /\ io.click = "declined"
    /\ Len(rows) = 2
    /\ \E r \in 1..Len(rows) : rows[r].items # <<>>

\* ---- C39: after load_tierlist, every row whose entry in the file has a
\* color key has exactly that colour, whatever the other rows hold (later
\* rows without a color key included), and a row without a color key has the
\* palette colour of its position.
C39_FileColorsKept ==
    io.pc = "loaded" /\ io.err = "none" /\ io.file.shape = "ok" =>
        /\ Len(io.doc.rows) = Len(io.file.rows)
        /\ \A k \in 1..Len(io.file.rows) :
              io.doc.rows[k].color = IF io.file.rows[k].color # NoColor
                                     THEN CssColor(io.file.rows[k].color)
                                     ELSE TierColor(k - 1)

====
